---- MODULE Spec2Model ----
(***************************************************************************)
(* A model of the asteroid-impact backend: the physics engine              *)
(* (app/utils/physics.py), the impact orchestrator                         *)
(* (app/services/impact_service.py), the environmental sub-calculators     *)
(* (app/services/environmental_service.py), the impact routes              *)
(* (app/routes/impact.py), the lazily configured service objects           *)
(* (app/services/nasa_service.py, app/services/geocoding_service.py), the  *)
(* place searches of the geocoding service and the approach calculator     *)
(* (app/services/orbital_service.py).                                      *)
(*                                                                         *)
(* Python floats are modelled as decimal floating-point numbers with a     *)
(* four-digit mantissa: the record [k, m, e] stands for m * 10^e, with     *)
(* 1000 <= |m| <= 9999 or m = 0.  A Python complex number (the value of a  *)
(* negative float raised to a fractional power) is the record Complex.     *)
(***************************************************************************)
EXTENDS Integers, Sequences, FiniteSets, TLC

VARIABLES pc, op, args, ret, impact_service, nasa_service, requests, earlier

\* the service objects of the process and the requests being handled
shared == <<impact_service, nasa_service, requests>>

vars == <<pc, op, args, ret, impact_service, nasa_service, requests, earlier>>

(***************************************************************************)
(* Bounds of the model.                                                    *)
(***************************************************************************)
\* longest close_approach_data list of a catalog record
MaxApproaches == 2
\* decimal exponents -MaxExp .. MaxExp of the energies handed to the pure functions
MaxExp == 12
\* requests that are handled at the same time
MaxRequests == 2
\* most places that the place search returns
MaxCities == 2

(***************************************************************************)
(* Decimal floating point.                                                 *)
(***************************************************************************)
Abs(n) == IF n < 0 THEN -n ELSE n

RECURSIVE Pow10(_)
Pow10(k) == IF k <= 0 THEN 1 ELSE 10 * Pow10(k - 1)

\* n / d (d > 0) rounded to the nearest integer, ties to even
RoundDiv(n, d) ==
    LET q == n \div d
        r == n % d
    IN  IF 2 * r < d THEN q
        ELSE IF 2 * r > d THEN q + 1
        ELSE IF q % 2 = 0 THEN q ELSE q + 1

Float(m, e) == [k |-> "float", m |-> m, e |-> e]

Complex == [k |-> "complex", m |-> 0, e |-> 0]

Zero == Float(0, 0)

IsComplex(x) == x.k = "complex"

RECURSIVE Norm(_, _)
Norm(m, e) ==
    IF m = 0 THEN Zero
    ELSE IF Abs(m) > 9999 THEN Norm(RoundDiv(m, 10), e + 1)
    ELSE IF Abs(m) < 1000 THEN Norm(m * 10, e - 1)
    ELSE Float(m, e)

FromInt(n) == Norm(n, 0)

Neg(a) == IF IsComplex(a) THEN Complex ELSE Float(-a.m, a.e)

Mul(a, b) ==
    IF IsComplex(a) \/ IsComplex(b) THEN Complex
    ELSE Norm(a.m * b.m, a.e + b.e)

\* a / b for b # 0
Div(a, b) ==
    IF IsComplex(a) \/ IsComplex(b) THEN Complex
    ELSE IF b.m > 0 THEN Norm(RoundDiv(a.m * 100000, b.m), a.e - b.e - 5)
    ELSE Norm(RoundDiv(-a.m * 100000, -b.m), a.e - b.e - 5)

\* a + b: the smaller operand is absorbed when it lies beyond the mantissa
Add(a, b) ==
    IF IsComplex(a) \/ IsComplex(b) THEN Complex
    ELSE IF a.m = 0 THEN b
    ELSE IF b.m = 0 THEN a
    ELSE IF a.e >= b.e
         THEN IF a.e - b.e > 5 THEN a ELSE Norm(a.m * Pow10(a.e - b.e) + b.m, b.e)
         ELSE IF b.e - a.e > 5 THEN b ELSE Norm(b.m * Pow10(b.e - a.e) + a.m, a.e)

Sub(a, b) == Add(a, Neg(b))

Lt(a, b) == Sub(a, b).m < 0

Le(a, b) == Sub(a, b).m <= 0

FMax(a, b) == IF Lt(a, b) THEN b ELSE a

\* round(x, nd) of a float
Round(x, nd) ==
    IF x.e >= -nd THEN x
    ELSE IF -nd - x.e > 4 THEN Zero
    ELSE Norm(RoundDiv(x.m, Pow10(-nd - x.e)), -nd)

\* int(x) of a float: truncation toward zero
Trunc(x) ==
    IF x.e >= 0 THEN x.m * Pow10(x.e)
    ELSE IF -x.e > 4 THEN 0
    ELSE IF x.m >= 0 THEN x.m \div Pow10(-x.e)
    ELSE -((-x.m) \div Pow10(-x.e))

\* 1000 * 10^(i/100) for i = 0 .. 100, at index i + 1
Exp10Table ==
    << 1000, 1023, 1047, 1072, 1096, 1122, 1148, 1175, 1202, 1230,
       1259, 1288, 1318, 1349, 1380, 1413, 1445, 1479, 1514, 1549,
       1585, 1622, 1660, 1698, 1738, 1778, 1820, 1862, 1905, 1950,
       1995, 2042, 2089, 2138, 2188, 2239, 2291, 2344, 2399, 2455,
       2512, 2570, 2630, 2692, 2754, 2818, 2884, 2951, 3020, 3090,
       3162, 3236, 3311, 3388, 3467, 3548, 3631, 3715, 3802, 3890,
       3981, 4074, 4169, 4266, 4365, 4467, 4571, 4677, 4786, 4898,
       5012, 5129, 5248, 5370, 5495, 5623, 5754, 5888, 6026, 6166,
       6310, 6457, 6607, 6761, 6918, 7079, 7244, 7413, 7586, 7762,
       7943, 8128, 8318, 8511, 8710, 8913, 9120, 9333, 9550, 9772,
       10000 >>

\* 10000 * log10(m / 1000) for a mantissa 1000 <= m <= 9999
LogMant(m) ==
    LET i == CHOOSE j \in 1..100 : Exp10Table[j] <= m /\ m < Exp10Table[j + 1]
        lo == Exp10Table[i]
        hi == Exp10Table[i + 1]
    IN  (i - 1) * 100 + ((m - lo) * 100) \div (hi - lo)

\* the mantissa of 10^(f / 10000) for 0 <= f <= 9999
Exp10Frac(f) ==
    LET i == f \div 100 + 1
        lo == Exp10Table[i]
        hi == Exp10Table[i + 1]
        m == lo + ((hi - lo) * (f % 100)) \div 100
    IN  IF m > 9999 THEN 9999 ELSE m

\* 10000 * log10(x) for a float x > 0
LogUnits(x) == (x.e + 3) * 10000 + LogMant(x.m)

\* math.log10(x) for a float x > 0
Log10(x) == Norm(LogUnits(x), -4)

\* x ** (p / 100) for a float x and a fractional exponent: 0 ** p is 0 for
\* p > 0, and a negative base gives a complex number
Pow(x, p) ==
    IF IsComplex(x) THEN Complex
    ELSE IF x.m = 0 THEN Zero
    ELSE IF x.m < 0 THEN Complex
    ELSE LET t == RoundDiv(LogUnits(x) * p, 100)
         IN  Float(Exp10Frac(t % 10000), t \div 10000 - 3)

\* x ** 3
Cube(x) == Mul(Mul(x, x), x)

\* x ** 2
Square(x) == Mul(x, x)

(***************************************************************************)
(* ImpactPhysics (app/utils/physics.py).                                   *)
(***************************************************************************)
ASTEROID_DENSITY == 3000

\* 4.184e9 joules per ton of TNT
TNT_JOULES == Float(4184, 6)

\* math.pi
Pi == Float(3142, -3)

calculate_mass(diameter_m) ==
    LET radius_m == Div(diameter_m, FromInt(2))
        volume_m3 == Mul(Mul(Div(FromInt(4), FromInt(3)), Pi), Cube(radius_m))
    IN  Mul(volume_m3, FromInt(ASTEROID_DENSITY))

calculate_kinetic_energy(mass_kg, velocity_km_s) ==
    LET velocity_m_s == Mul(velocity_km_s, FromInt(1000))
    IN  Mul(Mul(Float(5000, -4), mass_kg), Square(velocity_m_s))

energy_to_tnt_megatons(energy_joules) ==
    LET tons_tnt == Div(energy_joules, TNT_JOULES)
    IN  Div(tons_tnt, Float(1000, 3))

\* the target type is ignored: the land density is used for every target
calculate_crater_diameter_land_only(energy_megatons, target_type) ==
    Mul(Mul(Mul(Float(1800, -3), Pow(energy_megatons, 28)), Pow(FromInt(2500), -33)),
        FromInt(1000))

\* every target_type other than 'land' takes the water density
calculate_crater_diameter(energy_megatons, target_type) ==
    LET target_density == IF target_type = "land" THEN 2500 ELSE 1000
        diameter_m == Mul(Mul(Float(1800, -3), Pow(energy_megatons, 28)),
                          Pow(FromInt(target_density), -33))
    IN  Mul(diameter_m, FromInt(1000))

\* the regression value is returned without the floor at 0
calculate_seismic_magnitude_unclamped(energy_joules) ==
    IF Le(energy_joules, Zero) THEN Zero
    ELSE Sub(Mul(Float(6700, -4), Log10(energy_joules)), Float(5870, -3))

calculate_seismic_magnitude(energy_joules) ==
    IF Le(energy_joules, Zero) THEN Zero
    ELSE LET magnitude == Sub(Mul(Float(6700, -4), Log10(energy_joules)), Float(5870, -3))
         IN  FMax(Zero, magnitude)

\* energies below one megaton are answered with no damage at all
calculate_damage_radii_cutoff(energy_megatons) ==
    LET crater_diameter == calculate_crater_diameter(energy_megatons, "land")
        small == Lt(energy_megatons, FromInt(1))
    IN  [crater_radius_km |-> Div(crater_diameter, FromInt(2000)),
         fireball_radius_km |->
             IF small THEN Zero ELSE Mul(Float(5000, -4), Pow(energy_megatons, 40)),
         shockwave_radius_km |-> Mul(FromInt(2), Pow(energy_megatons, 33)),
         thermal_radiation_km |->
             IF small THEN Zero ELSE Mul(FromInt(5), Pow(energy_megatons, 40)),
         seismic_effect_km |-> Mul(FromInt(50), Pow(energy_megatons, 25))]

\* calculate_crater_diameter is called without a target type: its default, 'land'
calculate_damage_radii(energy_megatons) ==
    LET crater_diameter == calculate_crater_diameter(energy_megatons, "land")
    IN  [crater_radius_km |-> Div(crater_diameter, FromInt(2000)),
         fireball_radius_km |-> Mul(Float(5000, -4), Pow(energy_megatons, 40)),
         shockwave_radius_km |-> Mul(FromInt(2), Pow(energy_megatons, 33)),
         thermal_radiation_km |-> Mul(FromInt(5), Pow(energy_megatons, 40)),
         seismic_effect_km |-> Mul(FromInt(50), Pow(energy_megatons, 25))]

(***************************************************************************)
(* What a call does: it returns a value or raises, after the calls it made *)
(* to the physics engine.                                                  *)
(***************************************************************************)
Return(value, calls) == [kind |-> "return", error |-> "", value |-> value, calls |-> calls]

Raise(error, calls) == [kind |-> "raise", error |-> error, value |-> <<>>, calls |-> calls]

\* dict.get(key, default)
Get(dict, key, default) == IF key \in DOMAIN dict THEN dict[key] ELSE default

\* a fixed label, or an f-string with its formatted number
Label(text) == [text |-> text, number |-> Zero]

Format(text, number) == [text |-> text, number |-> number]

\* int(x), kept as a float because the integers of the reports exceed 32 bits
IntOf(x) == IF x.e >= 0 THEN x ELSE FromInt(Trunc(x))

\* an f-string with two formatted numbers
Format2(text, number, second) == [text |-> text, number |-> number, second |-> second]

(***************************************************************************)
(* ImpactService (app/services/impact_service.py).                         *)
(***************************************************************************)
\* without the band below 0.001 megatons: every energy below 0.015 gets the
\* conventional-bomb label
get_energy_comparison_two_bands(megatons) ==
    IF Lt(megatons, Float(1500, -5)) THEN Label("Similar a bombas convencionales grandes")
    ELSE IF Lt(megatons, FromInt(1))
         THEN Format("Equivale a {:.0f} bombas de Hiroshima",
                     Round(Div(megatons, Float(1500, -5)), 0))
    ELSE IF Lt(megatons, FromInt(50))
         THEN Label("Mayor que cualquier bomba nuclear probada (Tsar Bomba: 50 MT)")
    ELSE Format("Equivale a {:.0f} megatones - Evento de extincion", Round(megatons, 0))

get_energy_comparison(megatons) ==
    IF Lt(megatons, Float(1000, -6)) THEN Label("Menos que una bomba pequena")
    ELSE IF Lt(megatons, Float(1500, -5)) THEN Label("Similar a bombas convencionales grandes")
    ELSE IF Lt(megatons, FromInt(1))
         THEN Format("Equivale a {:.0f} bombas de Hiroshima",
                     Round(Div(megatons, Float(1500, -5)), 0))
    ELSE IF Lt(megatons, FromInt(50))
         THEN Label("Mayor que cualquier bomba nuclear probada (Tsar Bomba: 50 MT)")
    ELSE Format("Equivale a {:.0f} megatones - Evento de extincion", Round(megatons, 0))

get_crater_comparison(diameter_m) ==
    IF Lt(diameter_m, FromInt(50)) THEN Label("Tamano de una casa pequena")
    ELSE IF Lt(diameter_m, FromInt(100)) THEN Label("Tamano de una cancha de futbol")
    ELSE IF Lt(diameter_m, FromInt(500)) THEN Label("Tamano de varios campos de futbol")
    ELSE IF Lt(diameter_m, FromInt(1000)) THEN Label("Mas grande que 10 manzanas de ciudad")
    ELSE IF Lt(diameter_m, FromInt(5000))
         THEN Label("Mas grande que el Central Park de Nueva York")
    ELSE Format("Aproximadamente {:.1f} km de diametro - Visible desde el espacio",
                Round(Div(diameter_m, FromInt(1000)), 1))

\* the last comparison is <= instead of <: magnitude 8 stays 'major devastation'
get_seismic_comparison_inclusive(magnitude) ==
    IF Lt(magnitude, FromInt(3)) THEN Label("Apenas detectable - solo instrumentos")
    ELSE IF Lt(magnitude, FromInt(4)) THEN Label("Perceptible cerca del epicentro")
    ELSE IF Lt(magnitude, FromInt(5)) THEN Label("Dano menor a edificios debiles")
    ELSE IF Lt(magnitude, FromInt(6)) THEN Label("Dano moderado a estructuras")
    ELSE IF Lt(magnitude, FromInt(7)) THEN Label("Dano severo en area amplia")
    ELSE IF Le(magnitude, FromInt(8))
         THEN Label("Devastacion mayor (similar a Haiti 2010, 7.0)")
    ELSE Label("Catastrofico (similar a Japon 2011, 9.1)")

get_seismic_comparison(magnitude) ==
    IF Lt(magnitude, FromInt(3)) THEN Label("Apenas detectable - solo instrumentos")
    ELSE IF Lt(magnitude, FromInt(4)) THEN Label("Perceptible cerca del epicentro")
    ELSE IF Lt(magnitude, FromInt(5)) THEN Label("Dano menor a edificios debiles")
    ELSE IF Lt(magnitude, FromInt(6)) THEN Label("Dano moderado a estructuras")
    ELSE IF Lt(magnitude, FromInt(7)) THEN Label("Dano severo en area amplia")
    ELSE IF Lt(magnitude, FromInt(8))
         THEN Label("Devastacion mayor (similar a Haiti 2010, 7.0)")
    ELSE Label("Catastrofico (similar a Japon 2011, 9.1)")

estimate_population_impact(damage_radii) ==
    LET shockwave_area == Mul(Float(3142, -3), Square(damage_radii.shockwave_radius_km))
    IN  [method |-> "simplified_average",
         estimated_people_affected |-> Trunc(Mul(shockwave_area, FromInt(60))),
         affected_area_km2 |-> Round(shockwave_area, 2),
         note |-> "Estimacion usando densidad promedio global."]

\* the six calls of simulate_impact to the physics engine, in order
PhysicsCalls ==
    << "calculate_mass", "calculate_kinetic_energy", "energy_to_tnt_megatons",
       "calculate_crater_diameter", "calculate_seismic_magnitude",
       "calculate_damage_radii" >>

\* hiroshima_bombs taken from the rounded megatons_tnt of the result
hiroshima_bombs_of_reported(energy_megatons) ==
    Round(Div(Round(energy_megatons, 2), Float(1500, -5)), 0)

hiroshima_bombs(energy_megatons) == Round(Div(energy_megatons, Float(1500, -5)), 0)

\* a JSON string in the place of a number
Text == [k |-> "str", m |-> 0, e |-> 0]

IsText(x) == x.k = "str"

\* step 6 of simulate_impact: the result is structured from the arguments a
\* and the local variables l of the call. round() of a complex number raises
\* TypeError: the crater diameter is the first complex value the result rounds
structure_results(a, l) ==
    IF IsComplex(l.crater_diameter_m) \/ IsComplex(l.damage_radii.crater_radius_km)
    THEN Raise("TypeError", PhysicsCalls)
    ELSE Return(
          [asteroid |-> [diameter_m |-> a.diameter_m,
                         mass_kg |-> l.mass_kg,
                         velocity_km_s |-> a.velocity_km_s],
           impact |-> [location |-> [lat |-> a.impact_lat, lon |-> a.impact_lon],
                       angle_degrees |-> a.impact_angle,
                       target_type |-> a.target_type],
           energy |-> [joules |-> l.energy_joules,
                       megatons_tnt |-> Round(l.energy_megatons, 2),
                       hiroshima_bombs |-> hiroshima_bombs(l.energy_megatons),
                       comparison |-> get_energy_comparison(l.energy_megatons)],
           crater |-> [diameter_m |-> Round(l.crater_diameter_m, 2),
                       radius_m |-> Round(Div(l.crater_diameter_m, FromInt(2)), 2),
                       comparison |-> get_crater_comparison(l.crater_diameter_m)],
           seismic |-> [magnitude_richter |-> Round(l.seismic_magnitude, 2),
                        comparison |-> get_seismic_comparison(l.seismic_magnitude)],
           damage_zones |->
               [crater_radius_km |-> Round(l.damage_radii.crater_radius_km, 2),
                fireball_radius_km |-> Round(l.damage_radii.fireball_radius_km, 2),
                shockwave_radius_km |-> Round(l.damage_radii.shockwave_radius_km, 2),
                thermal_radiation_km |-> Round(l.damage_radii.thermal_radiation_km, 2),
                seismic_effect_km |-> Round(l.damage_radii.seismic_effect_km, 2)],
           population_impact |-> estimate_population_impact(l.damage_radii)],
          PhysicsCalls)

\* the energy scaled with the sine of the impact angle: sin(45 deg) = 0.7071
simulate_impact_by_angle(diameter_m, velocity_km_s, impact_lat, impact_lon, impact_angle, target_type) ==
    LET mass_kg == calculate_mass(diameter_m)
        energy_joules ==
            IF impact_angle = 90 THEN calculate_kinetic_energy(mass_kg, velocity_km_s)
            ELSE Mul(calculate_kinetic_energy(mass_kg, velocity_km_s), Float(7071, -4))
        energy_megatons == energy_to_tnt_megatons(energy_joules)
    IN  IF IsText(diameter_m) THEN Raise("TypeError", SubSeq(PhysicsCalls, 1, 1))
        ELSE IF IsText(velocity_km_s) THEN Raise("TypeError", SubSeq(PhysicsCalls, 1, 2))
        ELSE structure_results(
                 [diameter_m |-> diameter_m, velocity_km_s |-> velocity_km_s,
                  impact_lat |-> impact_lat, impact_lon |-> impact_lon,
                  impact_angle |-> impact_angle, target_type |-> target_type],
                 [mass_kg |-> mass_kg,
                  energy_joules |-> energy_joules,
                  energy_megatons |-> energy_megatons,
                  crater_diameter_m |-> calculate_crater_diameter(energy_megatons, target_type),
                  seismic_magnitude |-> calculate_seismic_magnitude(energy_joules),
                  damage_radii |-> calculate_damage_radii(energy_megatons)])

\* a string cannot be divided (diameter_m / 2 in calculate_mass), and a
\* string times 1000 cannot be squared (calculate_kinetic_energy)
simulate_impact(diameter_m, velocity_km_s, impact_lat, impact_lon, impact_angle, target_type) ==
    LET mass_kg == calculate_mass(diameter_m)
        energy_joules == calculate_kinetic_energy(mass_kg, velocity_km_s)
        energy_megatons == energy_to_tnt_megatons(energy_joules)
    IN  IF IsText(diameter_m) THEN Raise("TypeError", SubSeq(PhysicsCalls, 1, 1))
        ELSE IF IsText(velocity_km_s) THEN Raise("TypeError", SubSeq(PhysicsCalls, 1, 2))
        ELSE structure_results(
                 [diameter_m |-> diameter_m, velocity_km_s |-> velocity_km_s,
                  impact_lat |-> impact_lat, impact_lon |-> impact_lon,
                  impact_angle |-> impact_angle, target_type |-> target_type],
                 [mass_kg |-> mass_kg,
                  energy_joules |-> energy_joules,
                  energy_megatons |-> energy_megatons,
                  crater_diameter_m |-> calculate_crater_diameter(energy_megatons, target_type),
                  seismic_magnitude |-> calculate_seismic_magnitude(energy_joules),
                  damage_radii |-> calculate_damage_radii(energy_megatons)])

\* the default of close_approach_data: [{}]
DefaultApproaches == << <<>> >>

\* the velocity is read from the last close approach instead of the first
simulate_from_nasa_data_last_approach(asteroid_data, impact_lat, impact_lon, target_type) ==
    LET diameter_max == Get(asteroid_data, "diameter_max_m", Zero)
        diameter_min == Get(asteroid_data, "diameter_min_m", Zero)
        diameter_avg == Div(Add(diameter_max, diameter_min), FromInt(2))
        approaches == Get(asteroid_data, "close_approach_data", DefaultApproaches)
    IN  IF Len(approaches) = 0 THEN Raise("IndexError", <<>>)
        ELSE simulate_impact(diameter_avg,
                             Get(approaches[Len(approaches)], "velocity_km_s", FromInt(20)),
                             impact_lat, impact_lon, 45, target_type)

\* [0] of an empty list raises IndexError
simulate_from_nasa_data(asteroid_data, impact_lat, impact_lon, target_type) ==
    LET diameter_max == Get(asteroid_data, "diameter_max_m", Zero)
        diameter_min == Get(asteroid_data, "diameter_min_m", Zero)
        diameter_avg == Div(Add(diameter_max, diameter_min), FromInt(2))
        approaches == Get(asteroid_data, "close_approach_data", DefaultApproaches)
    IN  IF Len(approaches) = 0 THEN Raise("IndexError", <<>>)
        ELSE LET close_approach == approaches[1]
                 velocity == Get(close_approach, "velocity_km_s", FromInt(20))
             IN  simulate_impact(diameter_avg, velocity, impact_lat, impact_lon,
                                 45, target_type)

(***************************************************************************)
(* POST /impact/simulate (app/routes/impact.py).                           *)
(***************************************************************************)
\* jsonify(...), status
Response(status, success, payload, calls) ==
    [kind |-> "response", error |-> "",
     value |-> [status |-> status, success |-> success, payload |-> payload],
     calls |-> calls]

\* the answer to what the service call did: an exception is caught and
\* answered with status 500 and its message
Respond(outcome) ==
    IF outcome.kind = "raise"
    THEN Response(500, FALSE, outcome.error, outcome.calls)
    ELSE Response(200, TRUE, outcome.value, outcome.calls)

\* json is <<>> for a request without a JSON body (get_json() gives None),
\* else <<the body>>
route_simulate_impact(json) ==
    IF json = <<>> THEN Response(500, FALSE, "TypeError", <<>>)
    ELSE LET data == json[1] IN
    IF "impact_location" \notin DOMAIN data
    THEN Response(400, FALSE, "Missing impact_location", <<>>)
    ELSE IF "lat" \notin DOMAIN data.impact_location
               \/ "lon" \notin DOMAIN data.impact_location
    THEN Response(500, FALSE, "KeyError", <<>>)
    ELSE LET impact_lat == data.impact_location.lat
             impact_lon == data.impact_location.lon
             target_type == Get(data, "target_type", "land")
         IN  IF "nasa_data" \in DOMAIN data
             THEN Respond(simulate_from_nasa_data(data.nasa_data, impact_lat, impact_lon,
                                                  target_type))
             ELSE IF "diameter_m" \in DOMAIN data /\ "velocity_km_s" \in DOMAIN data
             THEN Respond(simulate_impact(data.diameter_m, data.velocity_km_s,
                                          impact_lat, impact_lon,
                                          Get(data, "impact_angle", 45), target_type))
             ELSE Response(400, FALSE,
                           "Missing required fields: diameter_m and velocity_km_s, or nasa_data",
                           <<>>)

(***************************************************************************)
(* POST /impact/simulate-asteroid/<asteroid_id> (app/routes/impact.py).    *)
(***************************************************************************)
\* json is <<>> for a request without a JSON body, else <<the body>>; fetched
\* is what NASAService().get_asteroid_details(asteroid_id) does: it raises,
\* or it returns the formatted record
route_simulate_asteroid(json, fetched) ==
    IF json = <<>> THEN Response(500, FALSE, "TypeError", <<>>)
    ELSE LET data == json[1] IN
    IF "impact_location" \notin DOMAIN data
    THEN Response(400, FALSE, "Missing impact_location", <<>>)
    ELSE IF fetched.kind = "raise"
    THEN Response(500, FALSE, fetched.error, << "get_asteroid_details" >>)
    ELSE IF "lat" \notin DOMAIN data.impact_location
               \/ "lon" \notin DOMAIN data.impact_location
    THEN Response(500, FALSE, "KeyError", << "get_asteroid_details" >>)
    ELSE LET asteroid_data == fetched.value
             simulated == simulate_from_nasa_data(asteroid_data, data.impact_location.lat,
                                                  data.impact_location.lon,
                                                  Get(data, "target_type", "land"))
         IN  IF simulated.kind = "raise"
             THEN Response(500, FALSE, simulated.error,
                           << "get_asteroid_details" >> \o simulated.calls)
             ELSE Response(200, TRUE,
                           [results |-> simulated.value,
                            asteroid_info |->
                                [id |-> asteroid_data.id,
                                 name |-> asteroid_data.name,
                                 is_potentially_hazardous |->
                                     asteroid_data.is_potentially_hazardous]],
                           << "get_asteroid_details" >> \o simulated.calls)

(***************************************************************************)
(* POST /impact/simulate-city (app/routes/impact.py).                      *)
(***************************************************************************)
\* the last test turned round: a city at or beyond the seismic radius is
\* 'minor', a city inside it alone is 'minimal'
classify_city_beyond_seismic(distance, damage_zones) ==
    IF Le(distance, damage_zones.crater_radius_km)
    THEN [damage_level |-> "total_destruction",
          effects |-> "Destruccion total - Vaporizacion inmediata"]
    ELSE IF Le(distance, damage_zones.fireball_radius_km)
    THEN [damage_level |-> "extreme",
          effects |-> "Destruccion extrema - Incineracion total"]
    ELSE IF Le(distance, damage_zones.shockwave_radius_km)
    THEN [damage_level |-> "severe",
          effects |-> "Dano severo - Colapso de edificios, bajas masivas"]
    ELSE IF Le(distance, damage_zones.thermal_radiation_km)
    THEN [damage_level |-> "moderate",
          effects |-> "Dano moderado - Quemaduras, incendios, estructuras danadas"]
    ELSE IF Le(damage_zones.seismic_effect_km, distance)
    THEN [damage_level |-> "minor",
          effects |-> "Dano menor - Ventanas rotas, temblores perceptibles"]
    ELSE [damage_level |-> "minimal",
          effects |-> "Efectos minimos - Vibraciones menores"]

\* the damage level of a city at a distance from the impact
classify_city(distance, damage_zones) ==
    IF Le(distance, damage_zones.crater_radius_km)
    THEN [damage_level |-> "total_destruction",
          effects |-> "Destruccion total - Vaporizacion inmediata"]
    ELSE IF Le(distance, damage_zones.fireball_radius_km)
    THEN [damage_level |-> "extreme",
          effects |-> "Destruccion extrema - Incineracion total"]
    ELSE IF Le(distance, damage_zones.shockwave_radius_km)
    THEN [damage_level |-> "severe",
          effects |-> "Dano severo - Colapso de edificios, bajas masivas"]
    ELSE IF Le(distance, damage_zones.thermal_radiation_km)
    THEN [damage_level |-> "moderate",
          effects |-> "Dano moderado - Quemaduras, incendios, estructuras danadas"]
    ELSE IF Le(distance, damage_zones.seismic_effect_km)
    THEN [damage_level |-> "minor",
          effects |-> "Dano menor - Ventanas rotas, temblores perceptibles"]
    ELSE [damage_level |-> "minimal",
          effects |-> "Efectos minimos - Vibraciones menores"]

\* the loop over affected_cities: every city gets its damage_level and effects
classify_cities(affected_cities, damage_zones) ==
    [i \in 1..Len(affected_cities) |->
        LET level == classify_city(affected_cities[i].distance_km, damage_zones)
        IN  [name |-> affected_cities[i].name,
             distance_km |-> affected_cities[i].distance_km,
             damage_level |-> level.damage_level,
             effects |-> level.effects]]

\* the search radius: the largest of the shockwave, thermal and seismic radii
max_radius(damage_zones) ==
    FMax(FMax(damage_zones.shockwave_radius_km, damage_zones.thermal_radiation_km),
         damage_zones.seismic_effect_km)

\* the body of the answer, from the request, the geocoded location, the
\* simulation results and the cities found
city_response_data(data, location, results, affected_cities) ==
    [impact |->
        [location |-> [lat |-> location.lat, lon |-> location.lon,
                       city |-> location.city, country |-> location.country,
                       formatted_address |-> location.formatted_address],
         asteroid |-> [diameter_m |-> data.diameter_m,
                       velocity_km_s |-> data.velocity_km_s,
                       target_type |-> Get(data, "target_type", "land")],
         energy |-> results.energy,
         crater |-> results.crater,
         damage_zones |-> results.damage_zones],
     affected_cities |->
        [i \in 1..Len(affected_cities) |->
            LET city == affected_cities[i]
                level == classify_city(city.distance_km, results.damage_zones)
            IN  [city |-> city.name,
                 country |-> city.country,
                 population |-> city.population,
                 distance_from_impact_km |-> city.distance_km,
                 damage_level |-> level.damage_level,
                 effects |-> level.effects]],
     total_cities_affected |-> Len(affected_cities)]

\* the city is geocoded before diameter_m and velocity_km_s are looked for
route_simulate_city_geocoding_first(json, geocoded, places) ==
    IF json = <<>> THEN Response(500, FALSE, "TypeError", <<>>)
    ELSE LET data == json[1] IN
    IF "city_name" \notin DOMAIN data
    THEN Response(400, FALSE, "Missing city_name", <<>>)
    ELSE IF geocoded = <<>>
    THEN Response(400, FALSE, "Could not find coordinates", << "get_coordinates" >>)
    ELSE IF "diameter_m" \notin DOMAIN data \/ "velocity_km_s" \notin DOMAIN data
    THEN Response(400, FALSE, "Missing diameter_m and velocity_km_s", << "get_coordinates" >>)
    ELSE LET simulated == simulate_impact(data.diameter_m, data.velocity_km_s,
                                          geocoded[1].lat, geocoded[1].lon, 45, Get(data, "target_type", "land"))
         IN  IF simulated.kind = "raise"
             THEN Response(500, FALSE, simulated.error,
                           << "get_coordinates", "simulate_impact" >>)
             ELSE Response(200, TRUE,
                           city_response_data(data, geocoded[1], simulated.value, places),
                           << "get_coordinates", "simulate_impact",
                              "find_cities_in_radius" >>)

\* json is <<>> for a request without a JSON body, else <<the body>>;
\* geocoded is what get_coordinates gives for the city: <<>> for None, else
\* <<the location>>; places is the list that find_cities_in_radius gives for
\* the location and max_radius
route_simulate_city(json, geocoded, places) ==
    IF json = <<>> THEN Response(500, FALSE, "TypeError", <<>>)
    ELSE LET data == json[1] IN
    IF "city_name" \notin DOMAIN data
    THEN Response(400, FALSE, "Missing city_name", <<>>)
    ELSE IF "diameter_m" \notin DOMAIN data \/ "velocity_km_s" \notin DOMAIN data
    THEN Response(400, FALSE, "Missing diameter_m and velocity_km_s", <<>>)
    ELSE IF geocoded = <<>>
    THEN Response(400, FALSE, "Could not find coordinates", << "get_coordinates" >>)
    ELSE LET simulated == simulate_impact(data.diameter_m, data.velocity_km_s,
                                          geocoded[1].lat, geocoded[1].lon, 45, Get(data, "target_type", "land"))
         IN  IF simulated.kind = "raise"
             THEN Response(500, FALSE, simulated.error,
                           << "get_coordinates", "simulate_impact" >>)
             ELSE Response(200, TRUE,
                           city_response_data(data, geocoded[1], simulated.value, places),
                           << "get_coordinates", "simulate_impact",
                              "find_cities_in_radius" >>)

(***************************************************************************)
(* The service objects and the configuration of the application.           *)
(***************************************************************************)
None == "None"

\* not x, for a string or None
Falsy(x) == x = None \/ x = ""

\* app.config, loaded from the Config class when the application is created
Config ==
    [NASA_API_KEY |-> "DEMO_KEY",
     DISTANCEMATRIX_API_KEY |-> "DEMO_KEY",
     NASA_NEO_API_URL |-> "https://api.nasa.gov/neo/rest/v1",
     DISTANCEMATRIX_API_URL |-> "https://api.distancematrix.ai/maps/api"]

\* ImpactService(): the physics engine is its only field, and the engine has
\* only class constants
ImpactService ==
    [physics |-> [ASTEROID_DENSITY |-> FromInt(ASTEROID_DENSITY),
                  TNT_JOULES |-> TNT_JOULES,
                  EARTH_RADIUS |-> FromInt(6371)]]

\* NASAService()
NASAService == [class |-> "NASAService", base_url |-> None, api_key |-> None]

\* GeocodingService()
GeocodingService ==
    [class |-> "GeocodingService", base_url |-> None, api_key |-> None,
     overpass_url |-> "https://overpass-api.de/api/interpreter"]

\* current_app.config[...] as _get_config of each class reads it
config_base_url(class) ==
    IF class = "NASAService" THEN Config.NASA_NEO_API_URL ELSE Config.DISTANCEMATRIX_API_URL

config_api_key(class) ==
    IF class = "NASAService" THEN Config.NASA_API_KEY ELSE Config.DISTANCEMATRIX_API_KEY

(***************************************************************************)
(* GeocodingService (app/services/geocoding_service.py): the place search. *)
(* A JSON object is a function from its keys; an answer of the place       *)
(* search is its status code and its JSON body.                            *)
(***************************************************************************)
\* math.radians(x)
radians(x) == Mul(x, Div(Pi, FromInt(180)))

\* abs(x) of a float
FAbs(x) == IF x.m < 0 THEN Neg(x) ELSE x

\* R * c of the haversine formula.  With delta_lon = 0 (one meridian) a is
\* sin(delta_lat / 2) ** 2 and c = 2 * atan2(sqrt(a), sqrt(1 - a)) is
\* |delta_lat| in radians; on the equator (lat1 = lat2 = 0) the same holds
\* of delta_lon.  The points of the model lie on one meridian or on the
\* equator.  A coordinate that is None raises TypeError in math.radians.
haversine_distance(lat1, lon1, lat2, lon2) ==
    CASE lon1 = lon2 -> Mul(FromInt(6371), radians(FAbs(Sub(lat2, lat1))))
      [] lon1 # lon2 /\ lat1 = Zero /\ lat2 = Zero ->
            Mul(FromInt(6371), radians(FAbs(Sub(lon2, lon1))))

\* not x for the value of a key of a JSON object: the key is absent (None) or
\* its number is 0
NotValue(object, key) == key \notin DOMAIN object \/ object[key] = Zero

\* the entry of the list for one element of the answer
city_of(element, lat, lon) ==
    [name |-> Get(element["tags"], "name", "Unknown"),
     lat |-> element["lat"],
     lon |-> element["lon"],
     place_type |-> Get(element["tags"], "place", None),
     population |-> Get(element["tags"], "population", "Unknown"),
     country |-> Get(element["tags"], "addr:country",
                     Get(element["tags"], "is_in:country", "Unknown")),
     distance_km |-> Round(haversine_distance(lat, lon, element["lat"], element["lon"]), 2)]

\* the loop over data.get('elements', []): an element without coordinates is
\* skipped, an element without tags raises KeyError
collect_cities(elements, lat, lon, cities) ==
    LET located == SelectSeq(elements, LAMBDA element :
                       ~(NotValue(element, "lat") \/ NotValue(element, "lon")))
    IN  IF \E i \in DOMAIN located : "tags" \notin DOMAIN located[i]
        THEN Raise("KeyError", <<>>)
        ELSE Return(cities \o [i \in DOMAIN located |-> city_of(located[i], lat, lon)], <<>>)

\* list.sort(key=distance_km): stable, ascending.  A city comes after the
\* cities that are nearer and after the earlier cities at its own distance.
sort_cities(cities) ==
    LET Before(j, i) ==
            \/ Lt(cities[j].distance_km, cities[i].distance_km)
            \/ ~Lt(cities[i].distance_km, cities[j].distance_km) /\ j < i
        position == [i \in DOMAIN cities |->
                        1 + Cardinality({j \in DOMAIN cities : Before(j, i)})]
    IN  [p \in DOMAIN cities |-> cities[CHOOSE i \in DOMAIN cities : position[i] = p]]

\* cities[:n]
Slice(list, n) == SubSeq(list, 1, IF Len(list) < n THEN Len(list) ELSE n)

\* find_cities_in_radius(lat, lon, radius_km) for the answer of the place
\* search: every exception gives the empty list
find_cities_in_radius(lat, lon, radius_km, response) ==
    IF response.status >= 400 THEN Return(<<>>, <<"post">>)
    ELSE LET collected == collect_cities(Get(response.json, "elements", <<>>), lat, lon, <<>>)
         IN  IF collected.kind = "raise" THEN Return(<<>>, <<"post">>)
             ELSE Return(Slice(sort_cities(collected.value), 50), <<"post">>)

\* _identify_ocean_or_sea(lat, lon, nearest_city, distance); nearest_city and
\* distance are <<>> for None
ocean_name_of(lat, lon) ==
    LET Between(low, x, high) == Le(FromInt(low), x) /\ Le(x, FromInt(high))
        by_longitude ==
            IF Between(-180, lon, -70) \/ Between(120, lon, 180)
            THEN IF Between(-60, lat, 60) THEN "Pacific Ocean" ELSE "Unknown Ocean"
            ELSE IF Between(-70, lon, 20)
            THEN IF Between(-60, lat, 70) THEN "Atlantic Ocean" ELSE "Unknown Ocean"
            ELSE IF Between(20, lon, 120)
            THEN IF Between(-60, lat, 30) THEN "Indian Ocean" ELSE "Unknown Ocean"
            ELSE "Unknown Ocean"
        by_latitude ==
            IF Lt(FromInt(66), lat) THEN "Arctic Ocean"
            ELSE IF Lt(lat, FromInt(-60)) THEN "Southern Ocean"
            ELSE by_longitude
    IN  IF Between(30, lat, 45) /\ Between(-10, lon, 45) THEN "Mediterranean Sea"
        ELSE IF Between(10, lat, 30) /\ Between(35, lon, 75) THEN "Arabian Sea"
        ELSE IF Between(0, lat, 25) /\ Between(90, lon, 100) THEN "Bay of Bengal"
        ELSE IF Between(20, lat, 50) /\ Between(120, lon, 145) THEN "Sea of Japan"
        ELSE by_latitude

identify_ocean_or_sea(lat, lon, nearest_city, distance) ==
    LET ocean_name == ocean_name_of(lat, lon)
        result == [formatted_address |-> Label(ocean_name), city |-> None, country |-> None,
                   country_code |-> None, state |-> None, is_remote |-> TRUE,
                   is_ocean |-> TRUE, ocean_name |-> ocean_name]
    IN  IF nearest_city # <<>> /\ nearest_city # <<"">> /\ distance # <<>> /\ distance # <<Zero>>
        THEN [formatted_address |->
                  Format("{} (nearest city: {}, ~{}km away)", IntOf(distance[1]))
                      @@ [ocean |-> ocean_name, name |-> nearest_city[1]],
              nearest_city |-> nearest_city[1],
              nearest_city_distance_km |-> Round(distance[1], 2)] @@ result
        ELSE result

\* the radii in km of the successive queries
SearchRadii == << 50, 100, 200, 500 >>

\* the place found: the first element of the answer
nearest_place(lat, lon, nearest) ==
    LET city_name == Get(nearest["tags"], "name", "Unknown")
        distance == haversine_distance(lat, lon, nearest["lat"], nearest["lon"])
    IN  IF Lt(FromInt(300), distance)
        THEN identify_ocean_or_sea(lat, lon, <<city_name>>, <<distance>>)
        ELSE [formatted_address |->
                  Format("Near {} (~{}km away)", IntOf(distance)) @@ [name |-> city_name],
              city |-> city_name,
              country |-> Get(nearest["tags"], "addr:country", "Unknown"),
              country_code |-> None,
              state |-> Get(nearest["tags"], "addr:state", None),
              is_remote |-> TRUE,
              is_ocean |-> FALSE,
              nearest_city_distance_km |-> Round(distance, 2)]

\* the loop of _find_nearest_city_overpass from the query numbered i, after
\* the queries of calls; responses[i] is what the query of SearchRadii[i]
\* gets.  An exception (the request raises, the element has no 'tags', a
\* coordinate is None) ends the call with None, which is <<>>.
RECURSIVE search_from(_, _, _, _, _)
search_from(lat, lon, responses, i, calls) ==
    IF i > Len(SearchRadii) THEN Return(identify_ocean_or_sea(lat, lon, <<>>, <<>>), calls)
    ELSE
    LET response == responses[i]
        queried == Append(calls, SearchRadii[i])
        elements == Get(response.json, "elements", <<>>)
    IN  IF response.error # "" THEN Return(<<>>, queried)
        ELSE IF response.status # 200 \/ elements = <<>>
        THEN search_from(lat, lon, responses, i + 1, queried)
        ELSE IF ~({"tags", "lat", "lon"} \subseteq DOMAIN elements[1])
        THEN Return(<<>>, queried)
        ELSE Return(nearest_place(lat, lon, elements[1]), queried)

find_nearest_city_overpass(lat, lon, responses) == search_from(lat, lon, responses, 1, <<>>)

\* reverse_geocode(lat, lon): geocoded is what the first lookup gives, <<>>
\* when it raises or has no result with a city, else <<its address parts>>
reverse_geocode(lat, lon, geocoded, responses) ==
    IF geocoded # <<>>
    THEN Return([formatted_address |-> Label(geocoded[1].formatted_address),
                 city |-> geocoded[1].city,
                 country |-> geocoded[1].country,
                 country_code |-> geocoded[1].country_code,
                 state |-> geocoded[1].state,
                 is_remote |-> FALSE,
                 is_ocean |-> FALSE],
                << "get" >>)
    ELSE LET found == find_nearest_city_overpass(lat, lon, responses)
         IN  Return(found.value, << "get" >> \o found.calls)

(***************************************************************************)
(* OrbitalService (app/services/orbital_service.py) and the catalog        *)
(* records of NASAService._format_asteroid (app/services/nasa_service.py). *)
(* A date string is the record of its layout, its day and its second of    *)
(* the day; a datetime is a number of seconds.  The numbers that the       *)
(* catalog writes as strings are the floats they denote.                   *)
(***************************************************************************)
\* the alert is raised for required = True although 30 days or more remain
get_evacuation_recommendations_early(days_until, will_impact) ==
    IF ~will_impact
    THEN [required |-> FALSE, status |-> "No evacuation needed", level |-> "Green",
          message |-> Label("Asteroid will safely pass by Earth"), actions |-> 0]
    ELSE IF days_until < 0
    THEN [required |-> TRUE, status |-> "IMPACT OCCURRED", level |-> "Black",
          message |-> Label("Impact has already occurred"), actions |-> 0]
    ELSE IF days_until < 7
    THEN [required |-> TRUE, status |-> "CRITICAL - Begin evacuation", level |-> "Red",
          message |-> Format("{} days until impact. Evacuate impact zone immediately.",
                             FromInt(days_until)),
          actions |-> 5]
    ELSE IF days_until < 180
    THEN [required |-> TRUE, status |-> "High Alert - Prepare to evacuate",
          level |-> "Orange",
          message |-> Format("{} days until impact. Prepare evacuation plan.",
                             FromInt(days_until)),
          actions |-> 5]
    ELSE [required |-> FALSE, status |-> "Advisory - Mitigation possible", level |-> "Green",
          message |-> Format("{} days until approach. Time for deflection missions.",
                             FromInt(days_until)),
          actions |-> 4]

\* _get_evacuation_recommendations; actions is the number of listed actions
\* (0 when the key is absent)
get_evacuation_recommendations(days_until, will_impact) ==
    IF ~will_impact
    THEN [required |-> FALSE, status |-> "No evacuation needed", level |-> "Green",
          message |-> Label("Asteroid will safely pass by Earth"), actions |-> 0]
    ELSE IF days_until < 0
    THEN [required |-> TRUE, status |-> "IMPACT OCCURRED", level |-> "Black",
          message |-> Label("Impact has already occurred"), actions |-> 0]
    ELSE IF days_until < 1
    THEN [required |-> TRUE, status |-> "IMMEDIATE EVACUATION", level |-> "Red",
          message |-> Label("Less than 24 hours until impact. Seek immediate shelter in designated safe zones."),
          actions |-> 4]
    ELSE IF days_until < 7
    THEN [required |-> TRUE, status |-> "CRITICAL - Begin evacuation", level |-> "Red",
          message |-> Format("{} days until impact. Evacuate impact zone immediately.",
                             FromInt(days_until)),
          actions |-> 5]
    ELSE IF days_until < 30
    THEN [required |-> TRUE, status |-> "High Alert - Prepare to evacuate",
          level |-> "Orange",
          message |-> Format("{} days until impact. Prepare evacuation plan.",
                             FromInt(days_until)),
          actions |-> 5]
    ELSE IF days_until < 180
    THEN [required |-> FALSE, status |-> "Elevated - Monitor situation", level |-> "Yellow",
          message |-> Format("{} days until potential impact. Stay informed.",
                             FromInt(days_until)),
          actions |-> 5]
    ELSE [required |-> FALSE, status |-> "Advisory - Mitigation possible", level |-> "Green",
          message |-> Format("{} days until approach. Time for deflection missions.",
                             FromInt(days_until)),
          actions |-> 4]

\* a date string: "" or its layout with the day and the second of the day
\* it writes
DateString(layout, day, second) == [layout |-> layout, day |-> day, second |-> second]

NoDate == DateString("", 0, 0)

\* the parsing of approach_date_str: <<>> for 'Invalid date format', else
\* <<the datetime in seconds>>.  A string with 'T' is read with
\* '%Y-%m-%dT%H:%M:%S.%f', one without 'T' with '%Y-%m-%d'; when that fails
\* the part before 'T' is read as a date and the time of day is dropped.
parse_approach_date(approach_date_str) ==
    CASE approach_date_str.layout = "%Y-%m-%dT%H:%M:%S.%f" ->
            << approach_date_str.day * 86400 + approach_date_str.second >>
      [] approach_date_str.layout = "%Y-%m-%d" -> << approach_date_str.day * 86400 >>
      [] approach_date_str.layout = "%Y-%m-%dT%H:%M" -> << approach_date_str.day * 86400 >>
      [] OTHER -> <<>>

\* a or b of two values of a dict
Either(a, b) == IF a = NoDate THEN b ELSE a

\* calculate_time_to_impact(asteroid_data) at the time now (datetime.utcnow(),
\* in seconds); float() of a text raises ValueError
calculate_time_to_impact(asteroid_data, now) ==
    LET close_approaches == Get(asteroid_data, "close_approach_data", <<>>) IN
    IF close_approaches = <<>>
    THEN Return([has_approach_data |-> FALSE,
                 message |-> "No close approach data available"], <<>>)
    ELSE
    LET next_approach == close_approaches[1]
        approach_date_str == Either(Get(next_approach, "close_approach_date_full", NoDate),
                                    Get(next_approach, "close_approach_date", NoDate))
        miss_distance_km == Get(Get(next_approach, "miss_distance", <<>>), "kilometers", Zero)
        velocity_km_s == Get(Get(next_approach, "relative_velocity", <<>>),
                             "kilometers_per_second", Zero)
        parsed == parse_approach_date(approach_date_str)
    IN
    IF IsText(miss_distance_km) \/ IsText(velocity_km_s) THEN Raise("ValueError", <<>>)
    ELSE IF approach_date_str = NoDate
    THEN Return([has_approach_data |-> FALSE,
                 message |-> "No valid approach date found"], <<>>)
    ELSE IF parsed = <<>>
    THEN Return([has_approach_data |-> FALSE,
                 message |-> "Invalid date format"], <<>>)
    ELSE
    LET time_delta == parsed[1] - now
        days_until == time_delta \div 86400
        seconds == time_delta % 86400
        will_impact == Lt(miss_distance_km, FromInt(6371))
    IN  Return([has_approach_data |-> TRUE,
                approach_date |-> parsed[1],
                time_until_approach |->
                    [total_seconds |-> time_delta,
                     days |-> days_until,
                     hours |-> seconds \div 3600,
                     minutes |-> (seconds % 3600) \div 60],
                miss_distance_km |-> miss_distance_km,
                velocity_km_s |-> velocity_km_s,
                will_impact |-> will_impact,
                impact_probability |-> IF will_impact THEN "High" ELSE "Very Low",
                evacuation |-> get_evacuation_recommendations(days_until, will_impact)],
               << "_get_evacuation_recommendations" >>)

\* NASAService._format_asteroid(raw_data): a missing key of the raw record
\* raises KeyError, float() of a text raises ValueError
format_asteroid(raw_data) ==
    IF "estimated_diameter" \notin DOMAIN raw_data
        \/ \E i \in 1..Len(Get(raw_data, "close_approach_data", <<>>)) :
              ~({"close_approach_date", "relative_velocity", "miss_distance"}
                   \subseteq DOMAIN raw_data["close_approach_data"][i])
    THEN Raise("KeyError", <<>>)
    ELSE IF \E i \in 1..Len(Get(raw_data, "close_approach_data", <<>>)) :
               \/ IsText(raw_data["close_approach_data"][i]["relative_velocity"].kilometers_per_second)
               \/ IsText(raw_data["close_approach_data"][i]["miss_distance"].kilometers)
    THEN Raise("ValueError", <<>>)
    ELSE Return(
          [id |-> Get(raw_data, "id", None),
           name |-> Get(raw_data, "name", None),
           diameter_min_m |-> raw_data["estimated_diameter"].meters.estimated_diameter_min,
           diameter_max_m |-> raw_data["estimated_diameter"].meters.estimated_diameter_max,
           is_potentially_hazardous |-> Get(raw_data, "is_potentially_hazardous_asteroid", None),
           close_approach_data |->
               [i \in 1..Len(Get(raw_data, "close_approach_data", <<>>)) |->
                   LET approach == raw_data["close_approach_data"][i]
                   IN  [date |-> approach["close_approach_date"],
                        velocity_km_s |-> approach["relative_velocity"].kilometers_per_second,
                        miss_distance_km |-> approach["miss_distance"].kilometers]]],
          <<>>)

(***************************************************************************)
(* EnvironmentalService (app/services/environmental_service.py).           *)
(***************************************************************************)
\* the comparisons are <= instead of <: a threshold value stays in the band below
calculate_climate_effects_inclusive(energy_megatons) ==
    IF Le(energy_megatons, FromInt(100))
    THEN Return([severity |-> "Local",
                 duration_days |-> IntOf(Mul(energy_megatons, Float(5000, -4))),
                 temperature_drop_celsius |-> Round(Mul(energy_megatons, Float(1000, -5)), 2),
                 affected_area_km2 |-> IntOf(Mul(energy_megatons, FromInt(10000)))], <<>>)
    ELSE IF Le(energy_megatons, FromInt(10000))
    THEN Return([severity |-> "Regional/Continental",
                 duration_months |-> IntOf(Div(energy_megatons, FromInt(100))),
                 temperature_drop_celsius |-> Round(Mul(energy_megatons, Float(1000, -6)), 1),
                 affected_area_km2 |-> IntOf(Mul(energy_megatons, FromInt(100000)))], <<>>)
    ELSE Return([severity |-> "Global - Mass Extinction",
                 duration_years |-> IntOf(Div(energy_megatons, FromInt(10000))),
                 temperature_drop_celsius |-> Round(Mul(energy_megatons, Float(1000, -7)), 1),
                 affected_area_km2 |-> Float(5100, 5)], <<>>)

calculate_atmospheric_effects(energy_megatons) ==
    IF Lt(energy_megatons, FromInt(1))
    THEN Return(
        [severity |-> "Minimal",
         dust_ejected_tons |-> IntOf(Mul(energy_megatons, Float(1000, 3))),
         atmospheric_penetration |-> "Complete vaporization before impact",
         shock_wave |-> Label("Localized sonic boom"),
         effects |-> << "Bright fireball visible",
                        "Loud sonic boom in area",
                        "Minimal dust in atmosphere" >>],
        <<>>)
    ELSE IF Lt(energy_megatons, FromInt(100))
    THEN Return(
        [severity |-> "Moderate",
         dust_ejected_tons |-> IntOf(Mul(energy_megatons, Float(5000, 3))),
         atmospheric_penetration |-> "Significant energy release in atmosphere",
         shock_wave |-> Format("Overpressure up to {:.1f} PSI at 10km",
                               Round(Mul(energy_megatons, Float(5000, -4)), 1)),
         effects |-> << "Massive fireball visible for hundreds of km",
                        "Shockwave breaks windows up to 50km away",
                        "Dust cloud affects local weather for days",
                        "Temporary ozone depletion in region" >>],
        <<>>)
    ELSE IF Lt(energy_megatons, FromInt(10000))
    THEN Return(
        [severity |-> "Severe",
         dust_ejected_tons |-> IntOf(Mul(energy_megatons, Float(1000, 4))),
         atmospheric_penetration |-> "Massive explosion in stratosphere",
         shock_wave |-> Label("Global atmospheric disturbance"),
         effects |-> << "Fireball visible from space",
                        "Stratospheric dust injection",
                        "Regional cooling for weeks/months",
                        "Acid rain in surrounding areas",
                        "Ozone layer damage",
                        "Disruption of air travel globally" >>],
        <<>>)
    ELSE Return(
        [severity |-> "Catastrophic",
         dust_ejected_tons |-> IntOf(Mul(energy_megatons, Float(5000, 4))),
         atmospheric_penetration |-> "Mass extinction level event",
         shock_wave |-> Label("Global atmospheric ignition possible"),
         effects |-> << "Global dust cloud blocking sunlight",
                        "Impact winter lasting years",
                        "Collapse of photosynthesis",
                        "Mass extinction of plant life",
                        "Breakdown of food chains",
                        "Global temperature drop of 10-20 C" >>],
        <<>>)

calculate_climate_effects(energy_megatons) ==
    IF Lt(energy_megatons, FromInt(100))
    THEN LET duration_days == IntOf(Mul(energy_megatons, Float(5000, -4)))
             temp_drop_c == Round(Mul(energy_megatons, Float(1000, -5)), 2)
         IN  Return(
             [severity |-> "Local",
              duration_days |-> duration_days,
              temperature_drop_celsius |-> temp_drop_c,
              affected_area_km2 |-> IntOf(Mul(energy_megatons, FromInt(10000))),
              effects |-> << Format2("Local cooling of {} C for {} days",
                                     temp_drop_c, duration_days),
                             Label("Disruption of local weather patterns"),
                             Label("Temporary reduction in solar radiation") >>],
             <<>>)
    ELSE IF Lt(energy_megatons, FromInt(10000))
    THEN LET duration_months == IntOf(Div(energy_megatons, FromInt(100)))
             temp_drop_c == Round(Mul(energy_megatons, Float(1000, -6)), 1)
         IN  Return(
             [severity |-> "Regional/Continental",
              duration_months |-> duration_months,
              temperature_drop_celsius |-> temp_drop_c,
              affected_area_km2 |-> IntOf(Mul(energy_megatons, FromInt(100000))),
              effects |-> << Format2("Regional cooling of {} C for {} months",
                                     temp_drop_c, duration_months),
                             Label("Disruption of growing seasons"),
                             Label("Increased precipitation in some areas, drought in others"),
                             Label("Failure of crops over wide areas"),
                             Label("Economic disruption to agriculture") >>],
             <<>>)
    ELSE LET duration_years == IntOf(Div(energy_megatons, FromInt(10000)))
             temp_drop_c == Round(Mul(energy_megatons, Float(1000, -7)), 1)
         IN  Return(
             [severity |-> "Global - Mass Extinction",
              duration_years |-> duration_years,
              temperature_drop_celsius |-> temp_drop_c,
              affected_area_km2 |-> Float(5100, 5),
              effects |-> << Format2("Global cooling of {} C for {}+ years",
                                     temp_drop_c, duration_years),
                             Label("Impact winter - darkness for months"),
                             Label("Collapse of global food production"),
                             Label("Mass starvation"),
                             Label("Ecosystem collapse"),
                             Label("Possible human extinction") >>],
             <<>>)

\* the short circuit is taken for 'water' instead of for every other target
calculate_tsunami_effects_inverted(lat, lon, energy_megatons, target_type) ==
    IF target_type = "water"
    THEN Return([risk |-> "None", message |-> "Impact on land - no tsunami generated"], <<>>)
    ELSE Return([risk |-> "Low",
                 wave_height_meters |->
                     Round(Mul(FromInt(10), Pow(energy_megatons, 50)), 1),
                 affected_coastlines |-> "Local (< 100km)"], <<>>)

\* round(wave_height_m, 1) of a complex wave height raises TypeError
calculate_tsunami_effects(lat, lon, energy_megatons, target_type) ==
    IF target_type # "water"
    THEN Return([risk |-> "None", message |-> "Impact on land - no tsunami generated"], <<>>)
    ELSE LET wave_height_m == Mul(FromInt(10), Pow(energy_megatons, 50))
         IN  IF IsComplex(wave_height_m) THEN Raise("TypeError", <<>>)
             ELSE IF Lt(energy_megatons, FromInt(10))
             THEN Return(
                 [risk |-> "Low",
                  wave_height_meters |-> Round(wave_height_m, 1),
                  affected_coastlines |-> "Local (< 100km)",
                  effects |-> << Format("Tsunami waves up to {:.1f}m high",
                                        Round(wave_height_m, 1)),
                                 Label("Flooding of immediate coastal areas"),
                                 Label("Damage to ports and coastal infrastructure"),
                                 Label("Evacuation needed for low-lying coasts") >>],
                 <<>>)
             ELSE IF Lt(energy_megatons, FromInt(1000))
             THEN Return(
                 [risk |-> "High",
                  wave_height_meters |-> Round(wave_height_m, 1),
                  affected_coastlines |-> "Regional (100-1000km)",
                  travel_time_hours |-> "Varies by distance (6-12 hours typical)",
                  effects |-> << Format("Massive tsunami waves up to {:.1f}m high",
                                        Round(wave_height_m, 1)),
                                 Label("Devastation of all coastal areas within 1000km"),
                                 Label("Waves detectable across ocean basin"),
                                 Label("Complete destruction of coastal cities"),
                                 Label("Millions at risk"),
                                 Label("Warning time: 2-12 hours depending on distance") >>],
                 <<>>)
             ELSE Return(
                 [risk |-> "Catastrophic",
                  wave_height_meters |-> Round(wave_height_m, 1),
                  affected_coastlines |-> "Global - All oceans",
                  travel_time_hours |-> "12-24 hours to reach all coasts",
                  effects |-> << Format("Mega-tsunami waves up to {:.1f}m high",
                                        Round(wave_height_m, 1)),
                                 Label("Global tsunami affecting all ocean-connected coasts"),
                                 Label("Complete inundation of coastal plains"),
                                 Label("Billions at risk"),
                                 Label("Permanent reshaping of coastlines"),
                                 Label("Flooding extends 10-100km inland") >>],
                 <<>>)

\* math.log10 of a number that is not positive raises ValueError
calculate_seismic_effects(energy_megatons) ==
    IF Le(Mul(energy_megatons, Float(4184, 12)), Zero) THEN Raise("ValueError", <<>>)
    ELSE LET magnitude == Sub(Mul(Float(6700, -4),
                                  Log10(Mul(energy_megatons, Float(4184, 12)))),
                              Float(5870, -3))
         IN  IF Lt(magnitude, FromInt(5))
             THEN Return(
                 [magnitude |-> Round(magnitude, 1),
                  severity |-> "Minor",
                  range_km |-> 50,
                  effects |-> << "Perceptible shaking near impact site" >>],
                 <<>>)
             ELSE IF Lt(magnitude, FromInt(7))
             THEN Return(
                 [magnitude |-> Round(magnitude, 1),
                  severity |-> "Moderate",
                  range_km |-> 500,
                  effects |-> << "Strong shaking up to 500km away",
                                 "Damage to buildings near impact",
                                 "Landslides in mountainous terrain",
                                 "Infrastructure damage" >>],
                 <<>>)
             ELSE Return(
                 [magnitude |-> Round(magnitude, 1),
                  severity |-> "Extreme",
                  range_km |-> 5000,
                  effects |-> << "Global seismic waves detectable",
                                 "Severe shaking across continent",
                                 "Triggering of earthquakes on fault lines",
                                 "Massive landslides",
                                 "Volcanic eruptions triggered",
                                 "Permanent geological changes" >>],
                 <<>>)

\* int() of a complex area raises TypeError
calculate_ecosystem_damage(energy_megatons, crater_diameter_m) ==
    IF Lt(energy_megatons, FromInt(1))
    THEN LET area == Div(Mul(Mul(crater_diameter_m, crater_diameter_m), Float(3140, -3)),
                         Float(1000, 3))
         IN  IF IsComplex(area) THEN Raise("TypeError", <<>>)
             ELSE Return(
                 [severity |-> "Localized",
                  affected_area_km2 |-> IntOf(area),
                  habitat_loss |-> "Minimal",
                  species_at_risk |-> "Local populations only",
                  recovery_time |-> "5-20 years",
                  effects |-> << "Destruction of immediate impact zone",
                                 "Fire damage in surrounding forest",
                                 "Temporary displacement of wildlife" >>],
                 <<>>)
    ELSE IF Lt(energy_megatons, FromInt(10000))
    THEN Return(
        [severity |-> "Regional",
         affected_area_km2 |-> IntOf(Mul(energy_megatons, FromInt(5000))),
         habitat_loss |-> "Significant",
         species_at_risk |-> "Regional extinctions possible",
         recovery_time |-> "50-200 years",
         effects |-> << "Widespread destruction of ecosystems",
                        "Mass animal deaths from shockwave and fires",
                        "Contamination of water sources",
                        "Disruption of food chains",
                        "Extinction of specialized species",
                        "Invasive species takeover during recovery" >>],
        <<>>)
    ELSE Return(
        [severity |-> "Mass Extinction Event",
         affected_area_km2 |-> Float(5100, 5),
         habitat_loss |-> "Catastrophic - Global",
         species_at_risk |-> "70-90% of all species",
         recovery_time |-> "Millions of years",
         effects |-> << "Collapse of global ecosystems",
                        "Extinction of most large animals",
                        "Death of most plant life (no sunlight)",
                        "Collapse of ocean food chains",
                        "Only extremophiles and some microbes survive",
                        "Complete restructuring of biosphere",
                        "Comparable to dinosaur extinction" >>],
        <<>>)

\* round(thermal_radius_km, 1) of a complex radius raises TypeError
calculate_radiation_effects(energy_megatons) ==
    LET thermal_radius_km == Mul(FromInt(5), Pow(energy_megatons, 40))
    IN  IF IsComplex(thermal_radius_km) THEN Raise("TypeError", <<>>)
        ELSE IF Lt(energy_megatons, FromInt(1))
        THEN Return(
            [thermal_radiation_radius_km |-> Round(thermal_radius_km, 1),
             severity |-> "Low",
             effects |-> << Label("First-degree burns possible within 1km"),
                            Label("Ignition of dry materials"),
                            Label("Brief flash of intense light") >>],
            <<>>)
        ELSE IF Lt(energy_megatons, FromInt(1000))
        THEN Return(
            [thermal_radiation_radius_km |-> Round(thermal_radius_km, 1),
             severity |-> "High",
             effects |-> << Format("Third-degree burns up to {:.0f}km from impact",
                                   Round(thermal_radius_km, 0)),
                            Label("Ignition of all flammable materials"),
                            Label("Firestorms in urban areas"),
                            Label("Retinal damage from flash (permanent blindness)"),
                            Label("Widespread fires creating smoke and soot") >>],
            <<>>)
        ELSE Return(
            [thermal_radiation_radius_km |-> Round(thermal_radius_km, 1),
             severity |-> "Extreme",
             effects |-> << Format("Lethal thermal radiation up to {:.0f}km",
                                   Round(thermal_radius_km, 0)),
                            Label("Global heat pulse"),
                            Label("Ignition of forests worldwide"),
                            Label("Atmospheric heating"),
                            Label("Possible global firestorm") >>],
            <<>>)

\* the six sub-calculators, in the order the report calls them
EnvironmentalCalls ==
    << "_calculate_atmospheric_effects", "_calculate_climate_effects",
       "_calculate_tsunami_effects", "_calculate_seismic_effects",
       "_calculate_ecosystem_damage", "_calculate_radiation_effects" >>

\* the first sub-calculator that raises ends the call
calculate_environmental_impacts(impact_lat, impact_lon, energy_megatons, crater_diameter_m, target_type) ==
    LET outcomes ==
            << calculate_atmospheric_effects(energy_megatons),
               calculate_climate_effects(energy_megatons),
               calculate_tsunami_effects(impact_lat, impact_lon, energy_megatons, target_type),
               calculate_seismic_effects(energy_megatons),
               calculate_ecosystem_damage(energy_megatons, crater_diameter_m),
               calculate_radiation_effects(energy_megatons) >>
        raised == {i \in 1..6 : outcomes[i].kind = "raise"}
    IN  IF raised = {}
        THEN Return([atmospheric |-> outcomes[1].value,
                     climate |-> outcomes[2].value,
                     tsunami |-> outcomes[3].value,
                     seismic |-> outcomes[4].value,
                     ecosystem |-> outcomes[5].value,
                     radiation |-> outcomes[6].value],
                    EnvironmentalCalls)
        ELSE LET first == CHOOSE i \in raised : \A j \in raised : i <= j
             IN  Raise(outcomes[first].error, SubSeq(EnvironmentalCalls, 1, first))

(***************************************************************************)
(* The inputs of the calls.                                                *)
(***************************************************************************)
\* in metres; 1.687 m is a diameter whose water crater radius rounds to 10.00 m
DiameterInputs == {FromInt(n) : n \in {-10, 0, 10, 12, 250, 508}} \cup {Float(1687, -3)}

VelocityInputs == {FromInt(n) : n \in {-20, 0, 11, 17, 20}}

LatInputs == {-91, 0, 45}

LonInputs == {-46, 181}

AngleInputs == {45, 90}

TargetInputs == {"land", "water", "lava"}

\* energies in joules or megatons: zero, and both signs over the decades
EnergyInputs ==
    {Zero} \cup {Float(m, e) : m \in {-2500, 1000, 2500, 9999}, e \in -MaxExp..MaxExp}

\* crater diameters in metres; the physics engine gives a complex diameter
\* for a negative energy
CraterInputs == {Zero, FromInt(1332), Complex}

\* energies in megatons for the comparison label, with 0.015 and 0.01499
ComparisonEnergyInputs == EnergyInputs \cup {Float(1500, -5), Float(1499, -5)}

\* magnitudes from 0 to 9.5 in steps of 0.5, and 0.001 below each whole one
MagnitudeInputs ==
    {Norm(5 * n, -1) : n \in 0..19} \cup {Float(n * 1000 - 1, -3) : n \in 2..9}

\* a close-approach entry, with or without its velocity_km_s
ApproachInputs ==
    {[key \in {} |-> Zero]}
        \cup {[key \in {"velocity_km_s"} |-> FromInt(v)] : v \in {11, 18}}

\* close_approach_data: absent (<<>>), or <<the list>>
ApproachListInputs ==
    {<<>>} \cup {<<list>> : list \in UNION {[1..n -> ApproachInputs] : n \in 0..MaxApproaches}}

\* a diameter field: absent (<<>>), or <<the value>>
DiameterMinInputs == {<<>>} \cup {<<FromInt(n)>> : n \in {10, 314}}

DiameterMaxInputs == {<<>>} \cup {<<FromInt(n)>> : n \in {14, 702}}

\* the catalog record with the fields that are present
CatalogRecord(dmin, dmax, approaches) ==
    [key \in (IF dmin = <<>> THEN {} ELSE {"diameter_min_m"})
               \cup (IF dmax = <<>> THEN {} ELSE {"diameter_max_m"})
               \cup (IF approaches = <<>> THEN {} ELSE {"close_approach_data"}) |->
        IF key = "diameter_min_m" THEN dmin[1]
        ELSE IF key = "diameter_max_m" THEN dmax[1]
        ELSE approaches[1]]

\* the fields of a request body: absent (<<>>), or <<the value>>
LocationInputs ==
    {<<>>, <<[lat |-> 45, lon |-> -46]>>, <<[lat |-> -91, lon |-> 181]>>, <<[lat |-> 45]>>}

TargetFieldInputs == {<<>>, <<"water">>, <<"lava">>}

NasaFieldInputs ==
    {<<>>,
     <<CatalogRecord(<<>>, <<>>, <<>>)>>,
     <<CatalogRecord(<<FromInt(314)>>, <<FromInt(702)>>, << <<>> >>)>>,
     <<CatalogRecord(<<FromInt(314)>>, <<FromInt(702)>>,
                     << <<[key \in {"velocity_km_s"} |-> FromInt(18)]>> >>)>>}

DiameterFieldInputs == {<<>>, <<FromInt(-10)>>, <<FromInt(250)>>, <<Text>>}

VelocityFieldInputs == {<<>>, <<Zero>>, <<FromInt(20)>>, <<Text>>}

AngleFieldInputs == {<<>>, <<90>>}

Present(name, field) == IF field = <<>> THEN {} ELSE {name}

\* the JSON body with the fields that are present
RequestBody(location, target, nasa, diameter, velocity, angle) ==
    [key \in Present("impact_location", location) \cup Present("target_type", target)
               \cup Present("nasa_data", nasa) \cup Present("diameter_m", diameter)
               \cup Present("velocity_km_s", velocity)
               \cup Present("impact_angle", angle) |->
        IF key = "impact_location" THEN location[1]
        ELSE IF key = "target_type" THEN target[1]
        ELSE IF key = "nasa_data" THEN nasa[1]
        ELSE IF key = "diameter_m" THEN diameter[1]
        ELSE IF key = "velocity_km_s" THEN velocity[1]
        ELSE angle[1]]

JsonInputs ==
    {<<>>} \cup
    {<<RequestBody(location, target, nasa, diameter, velocity, angle)>> :
        location \in LocationInputs, target \in TargetFieldInputs,
        nasa \in NasaFieldInputs, diameter \in DiameterFieldInputs,
        velocity \in VelocityFieldInputs, angle \in AngleFieldInputs}

\* city_name: absent (<<>>), or <<the value>>
CityFieldInputs == {<<>>, <<"Sao Paulo, Brazil">>}

\* the JSON body of a simulate-city request with the fields that are present
CityRequestBody(city, diameter, velocity, target) ==
    [key \in Present("city_name", city) \cup Present("diameter_m", diameter)
               \cup Present("velocity_km_s", velocity)
               \cup Present("target_type", target) |->
        IF key = "city_name" THEN city[1]
        ELSE IF key = "diameter_m" THEN diameter[1]
        ELSE IF key = "velocity_km_s" THEN velocity[1]
        ELSE target[1]]

CityJsonInputs ==
    {<<>>} \cup
    {<<CityRequestBody(city, diameter, velocity, target)>> :
        city \in CityFieldInputs, diameter \in DiameterFieldInputs,
        velocity \in VelocityFieldInputs, target \in TargetFieldInputs}

\* what get_coordinates gives: None (<<>>), or <<the location>>
GeocodedInputs ==
    {<<>>,
     <<[lat |-> -24, lon |-> -47, formatted_address |-> "Sao Paulo, State of Sao Paulo, Brazil",
        city |-> "Sao Paulo", country |-> "Brazil", country_code |-> "BR",
        state |-> "State of Sao Paulo"]>>}

\* distances in km of the places found: 0.5, 5, 15, 50, 200, 1000
DistanceInputs ==
    {Float(5000, -4), FromInt(5), FromInt(15), FromInt(50), FromInt(200), FromInt(1000)}

\* a place as find_cities_in_radius reports it
Place(distance) ==
    [name |-> "Unknown", lat |-> -24, lon |-> -47, place_type |-> "town",
     population |-> "Unknown", country |-> "Unknown", distance_km |-> distance]

\* what find_cities_in_radius gives: its places sorted by distance
PlacesInputs ==
    {list \in UNION {[1..n -> {Place(d) : d \in DistanceInputs}] : n \in 0..MaxCities} :
        \A i \in 1..(Len(list) - 1) : Le(list[i].distance_km, list[i + 1].distance_km)}

\* the points searched around: latitude 1 or the equator, on meridian 10
PointInputs ==
    {[lat |-> FromInt(1), lon |-> FromInt(10)], [lat |-> Zero, lon |-> FromInt(10)]}

\* the search radius in km
RadiusInputs == {FromInt(50), FromInt(200)}

\* the elements a place search reports: a town and a city with their tags, a
\* village on the equator (lat 0.0), an element without 'lat', an element
\* without 'tags'
ElementInputs ==
    {[lat |-> FromInt(2), lon |-> FromInt(10), tags |-> [name |-> "Ambato", place |-> "town"]],
     [lat |-> Float(1500, -3), lon |-> FromInt(10),
      tags |-> [name |-> "Quito", place |-> "city", population |-> "2800000"]
                 @@ ("addr:country" :> "EC")],
     [lat |-> Zero, lon |-> FromInt(10),
      tags |-> [place |-> "village"] @@ ("is_in:country" :> "Ecuador")],
     [lon |-> FromInt(10), tags |-> [name |-> "Puyo", place |-> "town"]],
     [lat |-> Float(1200, -3), lon |-> FromInt(10)]}

\* an answer that reports 51 villages, the farthest first
CrowdedElements ==
    [i \in 1..51 |->
        [lat |-> Float(1052 - i, -3), lon |-> FromInt(10),
         tags |-> [name |-> "Village", place |-> "village"]]]

\* the answers of the place search to one query: a failure, a body without
\* 'elements', or the elements it reports
AnswerInputs ==
    {[status |-> 504, json |-> <<>>], [status |-> 429, json |-> <<>>],
     [status |-> 200, json |-> [remark |-> "runtime error"]],
     [status |-> 200, json |-> [elements |-> CrowdedElements]]}
      \cup {[status |-> 200, json |-> [elements |-> list]] :
               list \in UNION {[1..n -> ElementInputs] : n \in 0..MaxCities}}

\* radii in km of a damage zone: 0.5, 15, 200
ZoneRadiusInputs == {Float(5000, -4), FromInt(15), FromInt(200)}

\* damage zones with the five radii in any order
DamageZonesInputs ==
    {[crater_radius_km |-> crater, fireball_radius_km |-> fireball,
      shockwave_radius_km |-> shockwave, thermal_radiation_km |-> thermal,
      seismic_effect_km |-> seismic] :
        crater \in ZoneRadiusInputs, fireball \in ZoneRadiusInputs,
        shockwave \in ZoneRadiusInputs, thermal \in ZoneRadiusInputs,
        seismic \in ZoneRadiusInputs}

\* days until the approach, around the breakpoints 0, 1, 7, 30 and 180
DaysUntilInputs == -2..181

\* datetime.utcnow() in seconds: day 0 at 00:00:00 and at 12:30:30
NowInputs == {0, 45030}

\* the day of the close approach
ApproachDayInputs == {-5, 0, 1, 15, 100, 200}

\* the layouts of close_approach_date_full: ISO with seconds, ISO without
\* seconds, and the catalog's own '2015-Sep-08 20:28'
FullDateLayouts == {"%Y-%m-%dT%H:%M:%S.%f", "%Y-%m-%dT%H:%M", "%Y-%b-%d %H:%M"}

\* miss_distance['kilometers']: absent, 6000, 6371, 7000000, or not a number
MissDistanceInputs ==
    {<<>>, <<FromInt(6000)>>, <<FromInt(6371)>>, <<FromInt(7000000)>>, <<Text>>}

\* relative_velocity['kilometers_per_second']: absent or 12.5
RelativeVelocityInputs == {<<>>, <<Float(1250, -2)>>}

\* a close-approach entry of the catalog with the keys that are present; the
\* full date is written at 12:30:00
RawApproach(layout, date, day, miss, velocity) ==
    [key \in Present("close_approach_date_full", layout)
               \cup Present("close_approach_date", date)
               \cup Present("miss_distance", miss)
               \cup Present("relative_velocity", velocity) |->
        IF key = "close_approach_date_full" THEN DateString(layout[1], day, 45000)
        ELSE IF key = "close_approach_date" THEN DateString("%Y-%m-%d", day, 0)
        ELSE IF key = "miss_distance" THEN [kilometers |-> miss[1]]
        ELSE [kilometers_per_second |-> velocity[1]]]

RawApproachInputs ==
    {RawApproach(layout, date, day, miss, velocity) :
        layout \in {<<>>} \cup {<<l>> : l \in FullDateLayouts}, date \in {<<>>, <<TRUE>>},
        day \in ApproachDayInputs, miss \in MissDistanceInputs,
        velocity \in RelativeVelocityInputs}

\* a later approach that passes far from the Earth
LaterApproach ==
    RawApproach(<<>>, <<TRUE>>, 200, <<FromInt(7000000)>>, <<Float(1250, -2)>>)

\* a record of the catalog: its close approaches are absent, none, one, or
\* one followed by the later approach
RawAsteroid(approaches) ==
    [key \in {"id", "name", "estimated_diameter", "is_potentially_hazardous_asteroid"}
               \cup Present("close_approach_data", approaches) |->
        IF key = "id" THEN "3542519"
        ELSE IF key = "name" THEN "(2010 PK9)"
        ELSE IF key = "estimated_diameter"
        THEN [meters |-> [estimated_diameter_min |-> FromInt(10),
                          estimated_diameter_max |-> FromInt(20)]]
        ELSE IF key = "is_potentially_hazardous_asteroid" THEN "True"
        ELSE approaches[1]]

RawAsteroidInputs ==
    {RawAsteroid(<<>>), RawAsteroid(<< <<>> >>)}
        \cup {RawAsteroid(<< <<approach>> >>) : approach \in RawApproachInputs}
        \cup {RawAsteroid(<< <<approach, LaterApproach>> >>) : approach \in RawApproachInputs}

\* the bodies of POST /impact/simulate-asteroid/<asteroid_id>
AsteroidJsonInputs ==
    {<<>>} \cup
    {<<RequestBody(location, target, <<>>, <<>>, <<>>, <<>>)>> :
        location \in LocationInputs, target \in TargetFieldInputs}

\* what get_asteroid_details does: the request fails, or the answer of the
\* catalog is formatted
FetchedInputs ==
    {Raise("HTTPError", <<>>)} \cup {format_asteroid(raw_data) : raw_data \in RawAsteroidInputs}

\* the points that are reverse geocoded: two on meridian 10 and one in the
\* Pacific
SiteInputs == PointInputs \cup {[lat |-> FromInt(-5), lon |-> FromInt(-150)]}

\* the first element of an answer for a site: a town 0.2 degrees (22 km) or
\* 3 degrees (334 km) to the north, an element without 'tags', an element
\* without coordinates
NearestInputs(site) ==
    {[lat |-> Add(site.lat, Float(2000, -4)), lon |-> site.lon,
      tags |-> [name |-> "Macas", place |-> "town"] @@ ("addr:country" :> "EC")],
     [lat |-> Add(site.lat, FromInt(3)), lon |-> site.lon, tags |-> [place |-> "city"]],
     [lat |-> Add(site.lat, Float(2000, -4)), lon |-> site.lon],
     [tags |-> [name |-> "Puyo", place |-> "town"]]}

\* what one query of the fallback gets: the request raises (a timeout), the
\* status is 429 or 504, or the status is 200 with no element or with one
SearchAnswerInputs(site) ==
    {[error |-> "Timeout", status |-> 0, json |-> <<>>],
     [error |-> "", status |-> 429, json |-> <<>>],
     [error |-> "", status |-> 504, json |-> <<>>],
     [error |-> "", status |-> 200, json |-> [elements |-> <<>>]]}
        \cup {[error |-> "", status |-> 200, json |-> [elements |-> <<nearest>>]] :
                 nearest \in NearestInputs(site)}

\* the answers to the four queries
SearchResponses(site) == [1..Len(SearchRadii) -> SearchAnswerInputs(site)]

\* what the first lookup of reverse_geocode gives: <<>> when it raises or
\* names no city, else <<the address parts>>
ReverseGeocodedInputs ==
    {<<>>,
     <<[formatted_address |-> "Quito, Ecuador", city |-> "Quito", country |-> "Ecuador",
        country_code |-> "EC", state |-> "Pichincha"]>>}

\* the requests handled at the same time
Requests == 1..MaxRequests

\* the arguments of the simulations requested at the same time
RequestSimulationInputs ==
    {[diameter_m |-> FromInt(250), velocity_km_s |-> FromInt(20), impact_lat |-> 45,
      impact_lon |-> -46, impact_angle |-> 45, target_type |-> "land"],
     [diameter_m |-> FromInt(-10), velocity_km_s |-> FromInt(11), impact_lat |-> 0,
      impact_lon |-> -46, impact_angle |-> 90, target_type |-> "water"]}

\* the calls that resolve the configuration of their service object: on the
\* module-level nasa_service, or on an object the route constructs
ConfiguredCalls ==
    {[call |-> "get_neo_feed", self |-> "nasa_service", object |-> <<>>],
     [call |-> "get_asteroid_details", self |-> "nasa_service", object |-> <<>>],
     [call |-> "get_asteroid_details", self |-> "local", object |-> NASAService],
     [call |-> "get_coordinates", self |-> "local", object |-> GeocodingService],
     [call |-> "reverse_geocode", self |-> "local", object |-> GeocodingService]}

\* the simulate_impact calls whose result is kept for a later comparison
ReplayInputs ==
    {[diameter_m |-> FromInt(250), velocity_km_s |-> FromInt(20), impact_lat |-> 0,
      impact_lon |-> -46, impact_angle |-> 45, target_type |-> target] :
        target \in {"land", "water"}}
      \cup {[diameter_m |-> FromInt(-10), velocity_km_s |-> FromInt(11), impact_lat |-> 45,
             impact_lon |-> 181, impact_angle |-> 90, target_type |-> "lava"]}

\* a request slot with no request in it
IdleRequest ==
    [pc |-> "idle", call |-> "none", self |-> "none", object |-> <<>>, args |-> <<>>,
     locals |-> <<>>, ret |-> Return(<<>>, <<>>)]

(***************************************************************************)
(* The state machine: a call is made with its inputs, it returns or        *)
(* raises, and its result is handed back and discarded.                    *)
(***************************************************************************)
Init ==
    /\ pc = "idle"
    /\ op = "none"
    /\ args = <<>>
    /\ ret = Return(<<>>, <<>>)
    /\ impact_service = ImpactService
    /\ nasa_service = NASAService
    /\ requests = [t \in Requests |-> IdleRequest]
    /\ earlier = <<>>

\* the velocity of a call is kept on the instance, and a later call is
\* simulated with the velocity that was kept
SimulateImpactWithKeptVelocity ==
    /\ pc = "idle"
    /\ \E d \in DiameterInputs, v \in VelocityInputs, lat \in LatInputs, lon \in LonInputs,
          angle \in AngleInputs, target \in TargetInputs :
          /\ args' = [diameter_m |-> d, velocity_km_s |-> v, impact_lat |-> lat,
                      impact_lon |-> lon, impact_angle |-> angle, target_type |-> target]
          /\ ret' = simulate_impact(d, Get(impact_service, "velocity_km_s", v), lat, lon,
                                    angle, target)
          /\ impact_service' = [physics |-> impact_service.physics, velocity_km_s |-> v]
    /\ op' = "simulate_impact"
    /\ pc' = "done"
    /\ UNCHANGED <<nasa_service, requests, earlier>>

SimulateImpact ==
    /\ pc = "idle"
    /\ \E d \in DiameterInputs, v \in VelocityInputs, lat \in LatInputs, lon \in LonInputs,
          angle \in AngleInputs, target \in TargetInputs :
          /\ args' = [diameter_m |-> d, velocity_km_s |-> v, impact_lat |-> lat,
                      impact_lon |-> lon, impact_angle |-> angle, target_type |-> target]
          /\ ret' = simulate_impact(d, v, lat, lon, angle, target)
    /\ op' = "simulate_impact"
    /\ pc' = "done"
    /\ UNCHANGED <<shared, earlier>>

SimulateFromNasaData ==
    /\ pc = "idle"
    /\ \E dmin \in DiameterMinInputs, dmax \in DiameterMaxInputs,
          approaches \in ApproachListInputs, lat \in LatInputs, lon \in LonInputs,
          target \in TargetInputs :
          /\ args' = [asteroid_data |-> CatalogRecord(dmin, dmax, approaches),
                      impact_lat |-> lat, impact_lon |-> lon, target_type |-> target]
          /\ ret' = simulate_from_nasa_data(CatalogRecord(dmin, dmax, approaches),
                                            lat, lon, target)
    /\ op' = "simulate_from_nasa_data"
    /\ pc' = "done"
    /\ UNCHANGED <<shared, earlier>>

CalculateSeismicMagnitude ==
    /\ pc = "idle"
    /\ \E joules \in EnergyInputs :
          /\ args' = [energy_joules |-> joules]
          /\ ret' = Return(calculate_seismic_magnitude(joules), <<>>)
    /\ op' = "calculate_seismic_magnitude"
    /\ pc' = "done"
    /\ UNCHANGED <<shared, earlier>>

CalculateDamageRadii ==
    /\ pc = "idle"
    /\ \E megatons \in EnergyInputs :
          /\ args' = [energy_megatons |-> megatons]
          /\ ret' = Return(calculate_damage_radii(megatons), <<>>)
    /\ op' = "calculate_damage_radii"
    /\ pc' = "done"
    /\ UNCHANGED <<shared, earlier>>

CalculateTsunamiEffects ==
    /\ pc = "idle"
    /\ \E lat \in LatInputs, lon \in LonInputs, megatons \in EnergyInputs,
          target \in TargetInputs :
          /\ args' = [lat |-> lat, lon |-> lon, energy_megatons |-> megatons,
                      target_type |-> target]
          /\ ret' = calculate_tsunami_effects(lat, lon, megatons, target)
    /\ op' = "calculate_tsunami_effects"
    /\ pc' = "done"
    /\ UNCHANGED <<shared, earlier>>

CalculateAtmosphericEffects ==
    /\ pc = "idle"
    /\ \E megatons \in EnergyInputs :
          /\ args' = [energy_megatons |-> megatons]
          /\ ret' = calculate_atmospheric_effects(megatons)
    /\ op' = "calculate_atmospheric_effects"
    /\ pc' = "done"
    /\ UNCHANGED <<shared, earlier>>

CalculateClimateEffects ==
    /\ pc = "idle"
    /\ \E megatons \in EnergyInputs :
          /\ args' = [energy_megatons |-> megatons]
          /\ ret' = calculate_climate_effects(megatons)
    /\ op' = "calculate_climate_effects"
    /\ pc' = "done"
    /\ UNCHANGED <<shared, earlier>>

CalculateSeismicEffects ==
    /\ pc = "idle"
    /\ \E megatons \in EnergyInputs :
          /\ args' = [energy_megatons |-> megatons]
          /\ ret' = calculate_seismic_effects(megatons)
    /\ op' = "calculate_seismic_effects"
    /\ pc' = "done"
    /\ UNCHANGED <<shared, earlier>>

CalculateEcosystemDamage ==
    /\ pc = "idle"
    /\ \E megatons \in EnergyInputs, crater \in CraterInputs :
          /\ args' = [energy_megatons |-> megatons, crater_diameter_m |-> crater]
          /\ ret' = calculate_ecosystem_damage(megatons, crater)
    /\ op' = "calculate_ecosystem_damage"
    /\ pc' = "done"
    /\ UNCHANGED <<shared, earlier>>

CalculateRadiationEffects ==
    /\ pc = "idle"
    /\ \E megatons \in EnergyInputs :
          /\ args' = [energy_megatons |-> megatons]
          /\ ret' = calculate_radiation_effects(megatons)
    /\ op' = "calculate_radiation_effects"
    /\ pc' = "done"
    /\ UNCHANGED <<shared, earlier>>

CalculateEnvironmentalImpacts ==
    /\ pc = "idle"
    /\ \E lat \in LatInputs, lon \in LonInputs, megatons \in EnergyInputs,
          crater \in CraterInputs, target \in TargetInputs :
          /\ args' = [impact_lat |-> lat, impact_lon |-> lon, energy_megatons |-> megatons,
                      crater_diameter_m |-> crater, target_type |-> target]
          /\ ret' = calculate_environmental_impacts(lat, lon, megatons, crater, target)
    /\ op' = "calculate_environmental_impacts"
    /\ pc' = "done"
    /\ UNCHANGED <<shared, earlier>>

GetEnergyComparison ==
    /\ pc = "idle"
    /\ \E megatons \in ComparisonEnergyInputs :
          /\ args' = [megatons |-> megatons]
          /\ ret' = Return(get_energy_comparison(megatons), <<>>)
    /\ op' = "get_energy_comparison"
    /\ pc' = "done"
    /\ UNCHANGED <<shared, earlier>>

GetSeismicComparison ==
    /\ pc = "idle"
    /\ \E magnitude \in MagnitudeInputs :
          /\ args' = [magnitude |-> magnitude]
          /\ ret' = Return(get_seismic_comparison(magnitude), <<>>)
    /\ op' = "get_seismic_comparison"
    /\ pc' = "done"
    /\ UNCHANGED <<shared, earlier>>

PostImpactSimulate ==
    /\ pc = "idle"
    /\ \E json \in JsonInputs :
          /\ args' = [json |-> json]
          /\ ret' = route_simulate_impact(json)
    /\ op' = "POST /impact/simulate"
    /\ pc' = "done"
    /\ UNCHANGED <<shared, earlier>>

PostImpactSimulateCity ==
    /\ pc = "idle"
    /\ \E json \in CityJsonInputs, geocoded \in GeocodedInputs, places \in PlacesInputs :
          /\ args' = [json |-> json, geocoded |-> geocoded, places |-> places]
          /\ ret' = route_simulate_city(json, geocoded, places)
    /\ op' = "POST /impact/simulate-city"
    /\ pc' = "done"
    /\ UNCHANGED <<shared, earlier>>

FindNearestCityOverpass ==
    /\ pc = "idle"
    /\ \E site \in SiteInputs :
          \E responses \in SearchResponses(site) :
              /\ args' = [lat |-> site.lat, lon |-> site.lon, responses |-> responses]
              /\ ret' = find_nearest_city_overpass(site.lat, site.lon, responses)
    /\ op' = "_find_nearest_city_overpass"
    /\ pc' = "done"
    /\ UNCHANGED <<shared, earlier>>

\* the four queries of the fallback get the same answer
ReverseGeocode ==
    /\ pc = "idle"
    /\ \E site \in SiteInputs, geocoded \in ReverseGeocodedInputs :
          \E answer \in SearchAnswerInputs(site) :
              LET responses == [i \in 1..Len(SearchRadii) |-> answer]
              IN  /\ args' = [lat |-> site.lat, lon |-> site.lon, geocoded |-> geocoded,
                              responses |-> responses]
                  /\ ret' = reverse_geocode(site.lat, site.lon, geocoded, responses)
    /\ op' = "reverse_geocode"
    /\ pc' = "done"
    /\ UNCHANGED <<shared, earlier>>

FindCitiesInRadius ==
    /\ pc = "idle"
    /\ \E point \in PointInputs, radius_km \in RadiusInputs, response \in AnswerInputs :
          /\ args' = [lat |-> point.lat, lon |-> point.lon, radius_km |-> radius_km,
                      response |-> response]
          /\ ret' = find_cities_in_radius(point.lat, point.lon, radius_km, response)
    /\ op' = "find_cities_in_radius"
    /\ pc' = "done"
    /\ UNCHANGED <<shared, earlier>>

ClassifyCities ==
    /\ pc = "idle"
    /\ \E affected_cities \in PlacesInputs, damage_zones \in DamageZonesInputs :
          /\ args' = [affected_cities |-> affected_cities, damage_zones |-> damage_zones]
          /\ ret' = Return(classify_cities(affected_cities, damage_zones), <<>>)
    /\ op' = "classify_cities"
    /\ pc' = "done"
    /\ UNCHANGED <<shared, earlier>>

PostImpactSimulateAsteroid ==
    /\ pc = "idle"
    /\ \E json \in AsteroidJsonInputs, fetched \in FetchedInputs :
          /\ args' = [json |-> json, fetched |-> fetched]
          /\ ret' = route_simulate_asteroid(json, fetched)
    /\ op' = "POST /impact/simulate-asteroid"
    /\ pc' = "done"
    /\ UNCHANGED <<shared, earlier>>

GetEvacuationRecommendations ==
    /\ pc = "idle"
    /\ \E days_until \in DaysUntilInputs, will_impact \in BOOLEAN :
          /\ args' = [days_until |-> days_until, will_impact |-> will_impact]
          /\ ret' = Return(get_evacuation_recommendations(days_until, will_impact), <<>>)
    /\ op' = "_get_evacuation_recommendations"
    /\ pc' = "done"
    /\ UNCHANGED <<shared, earlier>>

\* the record is the catalog's own, or what _format_asteroid makes of it
CalculateTimeToImpact ==
    /\ pc = "idle"
    /\ \E raw_data \in RawAsteroidInputs, formatted \in BOOLEAN, now \in NowInputs :
          /\ formatted => format_asteroid(raw_data).kind = "return"
          /\ LET asteroid_data ==
                     IF formatted THEN format_asteroid(raw_data).value ELSE raw_data
             IN  /\ args' = [asteroid_data |-> asteroid_data, raw_data |-> raw_data,
                             formatted |-> formatted, now |-> now]
                 /\ ret' = calculate_time_to_impact(asteroid_data, now)
    /\ op' = "calculate_time_to_impact"
    /\ pc' = "done"
    /\ UNCHANGED <<shared, earlier>>

\* the result is handed to the caller; nothing of the call is kept
Finish ==
    /\ pc = "done"
    /\ pc' = "idle"
    /\ op' = "none"
    /\ args' = <<>>
    /\ ret' = Return(<<>>, <<>>)
    /\ UNCHANGED <<shared, earlier>>

Next ==
    \/ SimulateImpact
    \/ SimulateFromNasaData
    \/ CalculateSeismicMagnitude
    \/ CalculateDamageRadii
    \/ CalculateTsunamiEffects
    \/ CalculateAtmosphericEffects
    \/ CalculateClimateEffects
    \/ CalculateSeismicEffects
    \/ CalculateEcosystemDamage
    \/ CalculateRadiationEffects
    \/ CalculateEnvironmentalImpacts
    \/ GetEnergyComparison
    \/ GetSeismicComparison
    \/ PostImpactSimulate
    \/ PostImpactSimulateCity
    \/ PostImpactSimulateAsteroid
    \/ GetEvacuationRecommendations
    \/ CalculateTimeToImpact
    \/ FindNearestCityOverpass
    \/ ReverseGeocode
    \/ FindCitiesInRadius
    \/ ClassifyCities
    \/ Finish

Spec == Init /\ [][Next]_vars

(***************************************************************************)
(* Requests handled at the same time.  The server handles each request in  *)
(* its own thread; the threads share the module-level impact_service and   *)
(* nasa_service, and a thread may be switched after any of its steps.      *)
(***************************************************************************)
\* the service object a configured call runs on
Self(t) == IF requests[t].self = "nasa_service" THEN nasa_service ELSE requests[t].object

\* POST /impact/simulate reaches impact_service.simulate_impact
ReceiveSimulation(t) ==
    /\ requests[t].pc = "idle"
    /\ \E a \in RequestSimulationInputs :
          requests' = [requests EXCEPT ![t] =
                          [pc |-> "calculate_mass", call |-> "simulate_impact",
                           self |-> "impact_service", object |-> <<>>, args |-> a,
                           locals |-> <<>>, ret |-> Return(<<>>, <<>>)]]
    /\ UNCHANGED <<pc, op, args, ret, impact_service, nasa_service, earlier>>

\* one call to the physics engine: its value is bound to a local variable
PhysicsStep(t, step, next, local, value) ==
    /\ requests[t].pc = step
    /\ requests' = [requests EXCEPT ![t].pc = next, ![t].locals = @ @@ (local :> value)]
    /\ UNCHANGED <<pc, op, args, ret, impact_service, nasa_service, earlier>>

StepCalculateMass(t) ==
    PhysicsStep(t, "calculate_mass", "calculate_kinetic_energy", "mass_kg",
                calculate_mass(requests[t].args.diameter_m))

StepCalculateKineticEnergy(t) ==
    PhysicsStep(t, "calculate_kinetic_energy", "energy_to_tnt_megatons", "energy_joules",
                calculate_kinetic_energy(requests[t].locals.mass_kg,
                                         requests[t].args.velocity_km_s))

\* the energy is kept on the instance by the first call that gets here, and
\* every call converts the energy that is kept there
StepEnergyToTntMegatonsOfInstance(t) ==
    /\ requests[t].pc = "energy_to_tnt_megatons"
    /\ LET kept == Get(impact_service, "energy_joules", requests[t].locals.energy_joules)
       IN  /\ impact_service' = [physics |-> impact_service.physics, energy_joules |-> kept]
           /\ requests' = [requests EXCEPT
                  ![t].pc = "calculate_crater_diameter",
                  ![t].locals = @ @@ ("energy_megatons" :> energy_to_tnt_megatons(kept))]
    /\ UNCHANGED <<pc, op, args, ret, nasa_service, earlier>>

StepEnergyToTntMegatons(t) ==
    PhysicsStep(t, "energy_to_tnt_megatons", "calculate_crater_diameter", "energy_megatons",
                energy_to_tnt_megatons(requests[t].locals.energy_joules))

StepCalculateCraterDiameter(t) ==
    PhysicsStep(t, "calculate_crater_diameter", "calculate_seismic_magnitude",
                "crater_diameter_m",
                calculate_crater_diameter(requests[t].locals.energy_megatons,
                                          requests[t].args.target_type))

StepCalculateSeismicMagnitude(t) ==
    PhysicsStep(t, "calculate_seismic_magnitude", "calculate_damage_radii",
                "seismic_magnitude",
                calculate_seismic_magnitude(requests[t].locals.energy_joules))

StepCalculateDamageRadii(t) ==
    PhysicsStep(t, "calculate_damage_radii", "structure_results", "damage_radii",
                calculate_damage_radii(requests[t].locals.energy_megatons))

StepStructureResults(t) ==
    /\ requests[t].pc = "structure_results"
    /\ requests' = [requests EXCEPT
                       ![t].pc = "done",
                       ![t].ret = structure_results(requests[t].args, requests[t].locals)]
    /\ UNCHANGED <<pc, op, args, ret, impact_service, nasa_service, earlier>>

\* a route calls a method that starts with self._get_config()
ReceiveConfigured(t) ==
    /\ requests[t].pc = "idle"
    /\ \E c \in ConfiguredCalls :
          requests' = [requests EXCEPT ![t] =
                          [pc |-> "get_config", call |-> c.call, self |-> c.self,
                           object |-> c.object, args |-> <<>>, locals |-> <<>>,
                           ret |-> Return(<<>>, <<>>)]]
    /\ UNCHANGED <<pc, op, args, ret, impact_service, nasa_service, earlier>>

\* _get_config: if not self.base_url
StepGetConfig(t) ==
    /\ requests[t].pc = "get_config"
    /\ requests' = [requests EXCEPT
                       ![t].pc = IF Falsy(Self(t).base_url) THEN "set_base_url"
                                 ELSE "request"]
    /\ UNCHANGED <<pc, op, args, ret, impact_service, nasa_service, earlier>>

\* self.<field> = value, then on to the next step
SetField(t, field, value, next) ==
    IF requests[t].self = "nasa_service"
    THEN /\ nasa_service' = [nasa_service EXCEPT ![field] = value]
         /\ requests' = [requests EXCEPT ![t].pc = next]
    ELSE /\ requests' = [requests EXCEPT ![t].pc = next, ![t].object[field] = value]
         /\ UNCHANGED nasa_service

\* _get_config: self.base_url = current_app.config[...]
StepSetBaseUrl(t) ==
    /\ requests[t].pc = "set_base_url"
    /\ SetField(t, "base_url", config_base_url(Self(t).class), "set_api_key")
    /\ UNCHANGED <<pc, op, args, ret, impact_service, earlier>>

\* _get_config: self.api_key = current_app.config[...]
StepSetApiKey(t) ==
    /\ requests[t].pc = "set_api_key"
    /\ SetField(t, "api_key", config_api_key(Self(t).class), "request")
    /\ UNCHANGED <<pc, op, args, ret, impact_service, earlier>>

\* requests.get(url, params): the URL and the key are read from the object;
\* the remote service answers or fails, and a failure is raised by the NASA
\* methods and caught by the geocoding methods
StepSendRequest(t) ==
    /\ requests[t].pc = "request"
    /\ \E answered \in BOOLEAN :
          requests' = [requests EXCEPT
              ![t].pc = "done",
              ![t].locals = [base_url |-> Self(t).base_url, api_key |-> Self(t).api_key],
              ![t].ret = IF answered THEN Return("response", <<"requests.get">>)
                         ELSE IF Self(t).class = "NASAService"
                         THEN Raise("HTTPError", <<"requests.get">>)
                         ELSE Return(None, <<"requests.get">>)]
    /\ UNCHANGED <<pc, op, args, ret, impact_service, nasa_service, earlier>>

\* the key of the shared object is cleared when the response is sent
StepReturnClearingKey(t) ==
    /\ requests[t].pc = "done"
    /\ requests' = [requests EXCEPT ![t] = IdleRequest]
    /\ nasa_service' = IF requests[t].self = "nasa_service"
                       THEN [nasa_service EXCEPT !.api_key = None]
                       ELSE nasa_service
    /\ UNCHANGED <<pc, op, args, ret, impact_service, earlier>>

\* the response is sent; the locals and the objects of the request are gone
StepReturn(t) ==
    /\ requests[t].pc = "done"
    /\ requests' = [requests EXCEPT ![t] = IdleRequest]
    /\ UNCHANGED <<pc, op, args, ret, impact_service, nasa_service, earlier>>

\* the result of a simulate_impact call is handed back and kept by the caller
\* for a later comparison
Remember ==
    /\ pc = "done"
    /\ op = "simulate_impact"
    /\ earlier = <<>>
    /\ args \in ReplayInputs
    /\ earlier' = <<[args |-> args, ret |-> ret]>>
    /\ pc' = "idle"
    /\ op' = "none"
    /\ args' = <<>>
    /\ ret' = Return(<<>>, <<>>)
    /\ UNCHANGED shared

NextReplay ==
    \/ SimulateImpact
    \/ SimulateFromNasaData
    \/ PostImpactSimulate
    \/ Remember
    \/ Finish

\* calls on the ImpactService instance, one after the other, in any order
SpecReplay == Init /\ [][NextReplay]_vars

NextRequests ==
    \E t \in Requests :
        \/ ReceiveSimulation(t)
        \/ StepCalculateMass(t)
        \/ StepCalculateKineticEnergy(t)
        \/ StepEnergyToTntMegatons(t)
        \/ StepCalculateCraterDiameter(t)
        \/ StepCalculateSeismicMagnitude(t)
        \/ StepCalculateDamageRadii(t)
        \/ StepStructureResults(t)
        \/ ReceiveConfigured(t)
        \/ StepGetConfig(t)
        \/ StepSetBaseUrl(t)
        \/ StepSetApiKey(t)
        \/ StepSendRequest(t)
        \/ StepReturn(t)

\* requests handled at the same time, their steps in any interleaving
SpecRequests == Init /\ [][NextRequests]_vars

(***************************************************************************)
(* The claims.                                                             *)
(***************************************************************************)
SimulateImpactDone == pc = "done" /\ op = "simulate_impact"

NasaDone == pc = "done" /\ op = "simulate_from_nasa_data"

\* a simulation, by either entry point, that returned its result
SimulationReturned ==
    /\ pc = "done"
    /\ op \in {"simulate_impact", "simulate_from_nasa_data"}
    /\ ret.kind = "return"

\* the record gives no velocity: no close_approach_data, an empty list, or a
\* first entry without velocity_km_s
NoVelocity(record) ==
    \/ "close_approach_data" \notin DOMAIN record
    \/ Len(record.close_approach_data) = 0
    \/ "velocity_km_s" \notin DOMAIN record.close_approach_data[1]

\* C1: simulate_from_nasa_data of a record whose close_approach_data is
\* empty, is absent, or whose first entry has no velocity_km_s completes
\* without error and simulates with velocity exactly 20 km/s.
C1_DefaultVelocity ==
    (NasaDone /\ NoVelocity(args.asteroid_data)) =>
        (ret.kind = "return" /\ ret.value.asteroid.velocity_km_s = FromInt(20))

InvalidParameters(a) ==
    \/ Le(a.diameter_m, Zero)
    \/ Le(a.velocity_km_s, Zero)
    \/ a.impact_lat < -90 \/ a.impact_lat > 90
    \/ a.impact_lon < -180 \/ a.impact_lon > 180

RouteDone == pc = "done" /\ op = "POST /impact/simulate"

\* the request has a body with a complete impact_location
HasLocation(json) ==
    /\ json # <<>>
    /\ "impact_location" \in DOMAIN json[1]
    /\ "lat" \in DOMAIN json[1].impact_location
    /\ "lon" \in DOMAIN json[1].impact_location

\* the request is simulated from its own diameter_m and velocity_km_s
DirectRequest(json) ==
    /\ HasLocation(json)
    /\ "nasa_data" \notin DOMAIN json[1]
    /\ "diameter_m" \in DOMAIN json[1]
    /\ "velocity_km_s" \in DOMAIN json[1]

\* the request is simulated, from nasa_data or from its own parameters
SimulatedRequest(json) ==
    /\ HasLocation(json)
    /\ \/ "nasa_data" \in DOMAIN json[1]
       \/ "diameter_m" \in DOMAIN json[1] /\ "velocity_km_s" \in DOMAIN json[1]

\* C2: simulate_impact, and the route that calls it, rejects every call with
\* diameter <= 0, velocity <= 0, latitude outside [-90,90] or longitude
\* outside [-180,180] with an InvalidParameter error raised before any
\* physics computation runs; no such call returns a result.
C2_RejectsInvalidParameters ==
    /\ (SimulateImpactDone /\ InvalidParameters(args)) =>
          (ret.kind = "raise" /\ ret.error = "InvalidParameter" /\ ret.calls = <<>>)
    /\ (RouteDone /\ DirectRequest(args.json)
          /\ InvalidParameters([diameter_m |-> args.json[1].diameter_m,
                                velocity_km_s |-> args.json[1].velocity_km_s,
                                impact_lat |-> args.json[1].impact_location.lat,
                                impact_lon |-> args.json[1].impact_location.lon])) =>
          (ret.value.status # 200 /\ ret.calls = <<>>)

UnknownTarget(a) == a.target_type \notin {"land", "water"}

\* C3: a target_type other than 'land' or 'water' is rejected by simulate,
\* and by the route that calls it, with InvalidParameter instead of being
\* simulated with one of the two densities, and the tsunami sub-calculator
\* answers it with neither the land ('None') risk nor a water tier.
C3_RejectsUnknownTarget ==
    /\ (pc = "done" /\ op \in {"simulate_impact", "simulate_from_nasa_data"}
          /\ UnknownTarget(args))
         => (ret.kind = "raise" /\ ret.error = "InvalidParameter")
    /\ (RouteDone /\ SimulatedRequest(args.json)
          /\ "target_type" \in DOMAIN args.json[1]
          /\ args.json[1].target_type \notin {"land", "water"})
         => ret.value.status # 200
    /\ (pc = "done" /\ op = "calculate_tsunami_effects" /\ UnknownTarget(args))
         => ret.kind = "raise"

\* the record has both diameters and a first close approach with a velocity
CompleteRecord(record) ==
    /\ "diameter_min_m" \in DOMAIN record
    /\ "diameter_max_m" \in DOMAIN record
    /\ ~NoVelocity(record)

\* C4: for a record with diameter_min_m, diameter_max_m and a first close
\* approach carrying velocity_km_s, simulate_from_nasa_data returns exactly
\* what simulate_impact returns for the mean diameter, the first entry's
\* velocity, the same site and target and impact_angle 45; later entries
\* have no influence.
C4_CatalogEquivalence ==
    (NasaDone /\ CompleteRecord(args.asteroid_data)) =>
        ret = simulate_impact(
                  Div(Add(args.asteroid_data.diameter_min_m,
                          args.asteroid_data.diameter_max_m), FromInt(2)),
                  args.asteroid_data.close_approach_data[1].velocity_km_s,
                  args.impact_lat, args.impact_lon, 45, args.target_type)

\* a complete record with two close approaches of different velocities was simulated
C4_Witness ==
    /\ NasaDone
    /\ CompleteRecord(args.asteroid_data)
    /\ Len(args.asteroid_data.close_approach_data) = 2
    /\ "velocity_km_s" \in DOMAIN args.asteroid_data.close_approach_data[2]
    /\ args.asteroid_data.close_approach_data[2].velocity_km_s
         # args.asteroid_data.close_approach_data[1].velocity_km_s
    /\ ret.kind = "return"
    /\ ret.value.asteroid.velocity_km_s
         = args.asteroid_data.close_approach_data[1].velocity_km_s

NoDiameter(record) ==
    /\ "diameter_min_m" \notin DOMAIN record
    /\ "diameter_max_m" \notin DOMAIN record

\* the result of a zero-diameter asteroid
ZeroResult(result) ==
    /\ result.asteroid.diameter_m = Zero
    /\ result.asteroid.mass_kg = Zero
    /\ result.energy.joules = Zero
    /\ result.energy.megatons_tnt = Zero
    /\ result.crater.diameter_m = Zero
    /\ result.seismic.magnitude_richter = Zero
    /\ \A zone \in DOMAIN result.damage_zones : result.damage_zones[zone] = Zero
    /\ result.population_impact.estimated_people_affected = 0

\* C5: a record with neither diameter_min_m nor diameter_max_m is simulated
\* as a zero-diameter asteroid without raising: diameter, mass, energy,
\* crater diameter, seismic magnitude, the five radii and the people
\* affected are all 0.
C5_ZeroDiameter ==
    (NasaDone /\ NoDiameter(args.asteroid_data)) =>
        (ret.kind = "return" /\ ZeroResult(ret.value))

\* C6 as stated: hiroshima_bombs is round(megatons_tnt / 0.015) of the
\* megatons_tnt reported in the same result.
C6_HiroshimaOfReported ==
    SimulationReturned =>
        ret.value.energy.hiroshima_bombs
            = Round(Div(ret.value.energy.megatons_tnt, Float(1500, -5)), 0)

\* C6 amended: hiroshima_bombs is round(E / 0.015) of the unrounded
\* TNT equivalent E of the reported joules, of which megatons_tnt is the
\* rounding to two decimals.
C6_HiroshimaOfUnrounded ==
    SimulationReturned =>
        LET energy_megatons == energy_to_tnt_megatons(ret.value.energy.joules)
        IN  /\ ret.value.energy.megatons_tnt = Round(energy_megatons, 2)
            /\ ret.value.energy.hiroshima_bombs
                 = Round(Div(energy_megatons, Float(1500, -5)), 0)

\* a result whose hiroshima_bombs is not the one of its reported megatons_tnt
C6_Witness ==
    /\ SimulationReturned
    /\ ret.value.energy.hiroshima_bombs
         # Round(Div(ret.value.energy.megatons_tnt, Float(1500, -5)), 0)

\* the same call on the other of the two target media
OtherTarget(a) ==
    simulate_impact(a.diameter_m, a.velocity_km_s, a.impact_lat, a.impact_lon,
                    a.impact_angle, IF a.target_type = "land" THEN "water" ELSE "land")

\* C7 as stated, for the calls with valid parameters: calls that differ
\* only in target_type return identical damage_zones and population_impact,
\* and for 'water' damage_zones.crater_radius_km is not
\* crater.radius_m / 1000.
C7_WaterRadiusDiffers ==
    (SimulateImpactDone /\ ret.kind = "return" /\ ~UnknownTarget(args)
        /\ ~InvalidParameters(args)) =>
        /\ OtherTarget(args).kind = "return"
        /\ OtherTarget(args).value.damage_zones = ret.value.damage_zones
        /\ OtherTarget(args).value.population_impact = ret.value.population_impact
        /\ args.target_type = "water" =>
              ret.value.damage_zones.crater_radius_km
                  # Div(ret.value.crater.radius_m, FromInt(1000))

\* C7 amended: calls that differ only in target_type return identical
\* damage_zones and population_impact; damage_zones.crater_radius_km is the
\* rounding of the land-density crater radius, which for 'water' and positive
\* energy is strictly smaller than the water-density crater radius that
\* crater.radius_m rounds.
C7_LandDensityInDamageZones ==
    (SimulateImpactDone /\ ret.kind = "return" /\ ~UnknownTarget(args)) =>
        LET energy_megatons == energy_to_tnt_megatons(ret.value.energy.joules)
            land_radius_km ==
                Div(calculate_crater_diameter(energy_megatons, "land"), FromInt(2000))
            water_radius_km ==
                Div(calculate_crater_diameter(energy_megatons, "water"), FromInt(2000))
        IN  /\ OtherTarget(args).kind = "return"
            /\ OtherTarget(args).value.damage_zones = ret.value.damage_zones
            /\ OtherTarget(args).value.population_impact = ret.value.population_impact
            /\ ret.value.damage_zones.crater_radius_km = Round(land_radius_km, 2)
            /\ (args.target_type = "water" /\ Lt(Zero, energy_megatons)) =>
                  /\ Lt(land_radius_km, water_radius_km)
                  /\ ret.value.crater.radius_m
                       = Round(Mul(water_radius_km, FromInt(1000)), 2)

\* a water impact of positive energy whose crater differs from the land one
C7_Witness ==
    /\ SimulateImpactDone
    /\ ret.kind = "return"
    /\ args.target_type = "water"
    /\ Lt(Zero, ret.value.energy.joules)
    /\ OtherTarget(args).value.crater.diameter_m # ret.value.crater.diameter_m
    /\ OtherTarget(args).value.damage_zones = ret.value.damage_zones

TsunamiDone == pc = "done" /\ op = "calculate_tsunami_effects"

\* C8: the tsunami sub-calculator returns risk 'None' for 'land' for every
\* megatons, and Low, High or Catastrophic for 'water' for every
\* megatons >= 0.
C8_TsunamiRisk ==
    TsunamiDone =>
        /\ args.target_type = "land" => (ret.kind = "return" /\ ret.value.risk = "None")
        /\ (args.target_type = "water" /\ Le(Zero, args.energy_megatons)) =>
              (ret.kind = "return" /\ ret.value.risk \in {"Low", "High", "Catastrophic"})

\* a land impact of at least 1000 megatons was answered with risk 'None'
C8_Witness ==
    /\ TsunamiDone
    /\ args.target_type = "land"
    /\ Le(FromInt(1000), args.energy_megatons)
    /\ ret.value.risk = "None"

SeismicDone == pc = "done" /\ op = "calculate_seismic_magnitude"

\* C9: calculate_seismic_magnitude(joules) is >= 0 for every joules, and is
\* exactly 0 for every joules <= 0, without an error.
C9_MagnitudeFloor ==
    SeismicDone =>
        /\ ret.kind = "return"
        /\ Le(Zero, ret.value)
        /\ Le(args.energy_joules, Zero) => ret.value = Zero

\* a positive energy whose regression value is negative was clamped to 0
C9_Witness ==
    /\ SeismicDone
    /\ Lt(Zero, args.energy_joules)
    /\ Lt(Sub(Mul(Float(6700, -4), Log10(args.energy_joules)), Float(5870, -3)), Zero)
    /\ ret.value = Zero

DamageRadiiDone == pc = "done" /\ op = "calculate_damage_radii"

\* C10: calculate_damage_radii(0) returns 0 for all five radii, and for
\* every megatons > 0 all five radii are strictly positive.
C10_DamageRadiiSign ==
    DamageRadiiDone =>
        /\ DOMAIN ret.value = {"crater_radius_km", "fireball_radius_km",
                               "shockwave_radius_km", "thermal_radiation_km",
                               "seismic_effect_km"}
        /\ args.energy_megatons = Zero =>
              \A zone \in DOMAIN ret.value : ret.value[zone] = Zero
        /\ Lt(Zero, args.energy_megatons) =>
              \A zone \in DOMAIN ret.value : Lt(Zero, ret.value[zone])

\* the radii of the smallest positive energy of the model are all positive
C10_Witness ==
    /\ DamageRadiiDone
    /\ args.energy_megatons = Float(1000, -MaxExp)
    /\ \A zone \in DOMAIN ret.value : Lt(Zero, ret.value[zone])

\* the sub-calculators whose tier is keyed on megatons
BandedCalls ==
    {"calculate_atmospheric_effects", "calculate_climate_effects",
     "calculate_tsunami_effects", "calculate_ecosystem_damage",
     "calculate_radiation_effects"}

\* the tiers of a sub-calculator from the lowest up, each with the lower
\* bound of its band in megatons
Bands(operation) ==
    IF operation = "calculate_atmospheric_effects"
    THEN << [tier |-> "Minimal", lower |-> Zero],
            [tier |-> "Moderate", lower |-> FromInt(1)],
            [tier |-> "Severe", lower |-> FromInt(100)],
            [tier |-> "Catastrophic", lower |-> FromInt(10000)] >>
    ELSE IF operation = "calculate_climate_effects"
    THEN << [tier |-> "Local", lower |-> Zero],
            [tier |-> "Regional/Continental", lower |-> FromInt(100)],
            [tier |-> "Global - Mass Extinction", lower |-> FromInt(10000)] >>
    ELSE IF operation = "calculate_tsunami_effects"
    THEN << [tier |-> "Low", lower |-> Zero],
            [tier |-> "High", lower |-> FromInt(10)],
            [tier |-> "Catastrophic", lower |-> FromInt(1000)] >>
    ELSE IF operation = "calculate_ecosystem_damage"
    THEN << [tier |-> "Localized", lower |-> Zero],
            [tier |-> "Regional", lower |-> FromInt(1)],
            [tier |-> "Mass Extinction Event", lower |-> FromInt(10000)] >>
    ELSE << [tier |-> "Low", lower |-> Zero],
            [tier |-> "High", lower |-> FromInt(1)],
            [tier |-> "Extreme", lower |-> FromInt(1000)] >>

\* the tier a report names: 'risk' in the tsunami report, 'severity' in the others
Tier(operation, report) ==
    IF operation = "calculate_tsunami_effects" THEN report.risk ELSE report.severity

\* a banded sub-calculator has been called in its domain: megatons >= 0, the
\* tsunami calculator on water, the ecosystem calculator with a real crater
BandedDone ==
    /\ pc = "done"
    /\ op \in BandedCalls
    /\ Le(Zero, args.energy_megatons)
    /\ op = "calculate_tsunami_effects" => args.target_type = "water"
    /\ op = "calculate_ecosystem_damage" => ~IsComplex(args.crater_diameter_m)

\* C11: a banded sub-calculator called with megatons >= 0 returns the tier of
\* the one band that holds the value, the highest band whose lower bound is
\* at or below it: a value equal to a threshold T is in the band that starts
\* at T, and a value below T is in a band below that one.
C11_BandSelection ==
    BandedDone =>
        /\ ret.kind = "return"
        /\ LET bands == Bands(op)
               reached == {i \in 1..Len(bands) : Le(bands[i].lower, args.energy_megatons)}
               band == CHOOSE i \in reached : \A j \in reached : j <= i
           IN  /\ Tier(op, ret.value) = bands[band].tier
               /\ \A i \in 1..Len(bands) :
                     Tier(op, ret.value) = bands[i].tier => i = band

\* the climate calculator is called with exactly 10000 megatons and answers
\* with the band that starts there
C11_Witness ==
    /\ BandedDone
    /\ op = "calculate_climate_effects"
    /\ args.energy_megatons = FromInt(10000)
    /\ ret.value.severity = "Global - Mass Extinction"

EnvironmentalDone == pc = "done" /\ op = "calculate_environmental_impacts"

SeismicEffectsDone == pc = "done" /\ op = "calculate_seismic_effects"

\* C12: for every megatons >= 0, zero included, and both target types the
\* report is returned with exactly the six sub-reports; the seismic
\* sub-calculator called with an energy <= 0 returns and never raises.
C12_EnvironmentalReport ==
    /\ (/\ EnvironmentalDone
        /\ Le(Zero, args.energy_megatons)
        /\ args.target_type \in {"land", "water"}
        /\ ~IsComplex(args.crater_diameter_m))
          => /\ ret.kind = "return"
             /\ DOMAIN ret.value = {"atmospheric", "climate", "tsunami", "seismic",
                                    "ecosystem", "radiation"}
    /\ (SeismicEffectsDone /\ Le(args.energy_megatons, Zero)) => ret.kind = "return"

\* C13: a banded sub-calculator called with negative megatons (the tsunami
\* calculator on water, where it names a tier) raises and returns no report,
\* so no tier is named for the negative value.
C13_RejectsNegativeMegatons ==
    (/\ pc = "done"
     /\ op \in BandedCalls
     /\ Lt(args.energy_megatons, Zero)
     /\ op = "calculate_tsunami_effects" => args.target_type = "water")
        => ret.kind = "raise"

\* the request is wrong in its input: it has no JSON body, its impact_location
\* lacks lat or lon, its nasa_data has an empty close_approach_data, or it has
\* no nasa_data and diameter_m or velocity_km_s is missing or is not a number
InputError(json) ==
    \/ json = <<>>
    \/ /\ "impact_location" \in DOMAIN json[1]
       /\ \/ "lat" \notin DOMAIN json[1].impact_location
          \/ "lon" \notin DOMAIN json[1].impact_location
    \/ /\ "nasa_data" \in DOMAIN json[1]
       /\ "close_approach_data" \in DOMAIN json[1].nasa_data
       /\ Len(json[1].nasa_data.close_approach_data) = 0
    \/ /\ "nasa_data" \notin DOMAIN json[1]
       /\ \/ "diameter_m" \notin DOMAIN json[1]
          \/ "velocity_km_s" \notin DOMAIN json[1]
          \/ IsText(json[1].diameter_m)
          \/ IsText(json[1].velocity_km_s)

\* C14: POST /impact/simulate answers every request that is wrong in its
\* input with a 4xx status, never with 500.
C14_InputErrorsAre4xx ==
    (RouteDone /\ InputError(args.json)) => ret.value.status \in 400..499

EnergyComparisonDone == pc = "done" /\ op = "get_energy_comparison"

ConventionalBomb == "Similar a bombas convencionales grandes"

\* C15 as stated: the label of an energy >= 0 is the conventional-bomb label
\* exactly when the energy is below 0.015 megatons.
C15_BelowConventionalThreshold ==
    (EnergyComparisonDone /\ Le(Zero, args.megatons)) =>
        (ret.value.text = ConventionalBomb <=> Lt(args.megatons, Float(1500, -5)))

\* C15, amended: the label is the conventional-bomb label exactly for
\* 0.001 <= energy < 0.015 megatons; below 0.001 it is the small-bomb label.
\* The label in a simulation result is the one of its unrounded energy.
C15_ConventionalBand ==
    /\ EnergyComparisonDone =>
          /\ ret.value.text = ConventionalBomb <=>
                (Le(Float(1000, -6), args.megatons) /\ Lt(args.megatons, Float(1500, -5)))
          /\ Lt(args.megatons, Float(1000, -6)) =>
                ret.value.text = "Menos que una bomba pequena"
    /\ SimulationReturned =>
          LET megatons == energy_to_tnt_megatons(ret.value.energy.joules)
          IN  ret.value.energy.comparison.text = ConventionalBomb <=>
                 (Le(Float(1000, -6), megatons) /\ Lt(megatons, Float(1500, -5)))

\* an energy below 0.001 megatons is labelled, and not as a conventional bomb
C15_Witness ==
    /\ EnergyComparisonDone
    /\ Le(Zero, args.megatons)
    /\ Lt(args.megatons, Float(1000, -6))
    /\ ret.value.text = "Menos que una bomba pequena"

SeismicComparisonDone == pc = "done" /\ op = "get_seismic_comparison"

\* the seven labels from the lowest up; label i + 1 starts at breakpoint i + 2
SeismicLabels ==
    << "Apenas detectable - solo instrumentos",
       "Perceptible cerca del epicentro",
       "Dano menor a edificios debiles",
       "Dano moderado a estructuras",
       "Dano severo en area amplia",
       "Devastacion mayor (similar a Haiti 2010, 7.0)",
       "Catastrofico (similar a Japon 2011, 9.1)" >>

\* the label of a magnitude: one step up for every breakpoint 3 .. 8 that the
\* magnitude has reached
ExpectedSeismicLabel(magnitude) ==
    SeismicLabels[1 + Cardinality({b \in 3..8 : Le(FromInt(b), magnitude)})]

\* C16: a magnitude >= 0 gets exactly the label of its band between the
\* breakpoints 3, 4, 5, 6, 7, 8, a breakpoint value taking the upper label:
\* 'catastrophic' if and only if the magnitude is >= 8, 'major devastation'
\* on [7, 8). The label in a simulation result is the one of its magnitude.
C16_SeismicLabel ==
    /\ (SeismicComparisonDone /\ Le(Zero, args.magnitude)) =>
          /\ ret.value.text = ExpectedSeismicLabel(args.magnitude)
          /\ ret.value.text = SeismicLabels[7] <=> Le(FromInt(8), args.magnitude)
          /\ ret.value.text = SeismicLabels[6] <=>
                (Le(FromInt(7), args.magnitude) /\ Lt(args.magnitude, FromInt(8)))
    /\ SimulationReturned =>
          ret.value.seismic.comparison.text =
              ExpectedSeismicLabel(calculate_seismic_magnitude(ret.value.energy.joules))

\* the label of magnitude exactly 8 is asked for and is 'catastrophic'
C16_Witness ==
    /\ SeismicComparisonDone
    /\ args.magnitude = FromInt(8)
    /\ ret.value.text = "Catastrofico (similar a Japon 2011, 9.1)"

\* a simulate_impact call has returned or raised, and a call with the same
\* arguments was made before it
Replayed ==
    /\ SimulateImpactDone
    /\ earlier # <<>>
    /\ earlier[1].args = args

\* C17: a simulate_impact call gives what an earlier call with the same
\* arguments gave, whatever calls were made on the instance in between, and
\* the instance is as it was constructed after every call.
C17_Deterministic ==
    /\ Replayed => (ret.kind = earlier[1].ret.kind /\ ret = earlier[1].ret)
    /\ impact_service = ImpactService

\* a simulation is repeated after its result was kept, and returns a result
C17_Witness == Replayed /\ ret.kind = "return"

\* request t has been handled by simulate_impact and its response is ready
SimulationHandled(t) == requests[t].pc = "done" /\ requests[t].call = "simulate_impact"

\* what simulate_impact gives for the arguments a when it runs alone
Alone(a) ==
    simulate_impact(a.diameter_m, a.velocity_km_s, a.impact_lat, a.impact_lon,
                    a.impact_angle, a.target_type)

\* C18: whatever the interleaving of the requests, a simulate_impact call
\* gives what the same call gives alone, and the shared ImpactService instance
\* is as it was constructed.
C18_NoSharedState ==
    /\ \A t \in Requests :
          SimulationHandled(t) =>
              /\ requests[t].ret.kind = Alone(requests[t].args).kind
              /\ requests[t].ret = Alone(requests[t].args)
    /\ impact_service = ImpactService

\* a simulation is finished while another one, with other arguments, is
\* between two of its physics calls
C18_Witness ==
    \E t \in Requests, u \in Requests :
        /\ SimulationHandled(t)
        /\ requests[t].ret.kind = "return"
        /\ requests[u].call = "simulate_impact"
        /\ requests[u].pc = "calculate_crater_diameter"
        /\ requests[u].args # requests[t].args

\* the fields of the configuration that a step leaves as they are, once set
KeepsConfig(before, after) ==
    /\ before.base_url # None => after.base_url = before.base_url
    /\ before.api_key # None => after.api_key = before.api_key

\* C19: once base_url or api_key of a service object has been resolved, no
\* step of any request changes it, whatever the interleaving: on the
\* module-level nasa_service, and on an object constructed by a route for as
\* long as the request holds it.
C19_ConfigResolvedOnce ==
    [][/\ KeepsConfig(nasa_service, nasa_service')
       /\ \A t \in Requests :
             (requests[t].object # <<>> /\ requests'[t].object # <<>>)
                 => KeepsConfig(requests[t].object, requests'[t].object)]_vars

\* nasa_service is resolved while a request that found it unresolved is about
\* to assign base_url again
C19_Witness ==
    /\ nasa_service.base_url # None
    /\ nasa_service.api_key # None
    /\ \E t \in Requests :
          requests[t].self = "nasa_service" /\ requests[t].pc = "set_base_url"

CityRouteDone == pc = "done" /\ op = "POST /impact/simulate-city"

\* the steps of the route in the documented order
CitySteps == << "get_coordinates", "simulate_impact", "find_cities_in_radius" >>

\* the body has city_name, diameter_m and velocity_km_s
CityRequestComplete(json) ==
    {"city_name", "diameter_m", "velocity_km_s"} \subseteq DOMAIN json[1]

FindCitiesDone == pc = "done" /\ op = "find_cities_in_radius"

\* the elements a successful place search reported
Reported(response) ==
    IF response.status = 200 THEN Get(response.json, "elements", <<>>) ELSE <<>>

IsEntryOf(city, element, lat, lon) ==
    /\ {"lat", "lon", "tags"} \subseteq DOMAIN element
    /\ city = city_of(element, lat, lon)

C21_AllSettlementsReturned ==
    FindCitiesDone =>
        \A i \in 1..Len(Reported(args.response)) :
            \E j \in 1..Len(ret.value) :
                IsEntryOf(ret.value[j], Reported(args.response)[i], args.lat, args.lon)

(***************************************************************************)
(* C22: every affected city gets exactly one damage_level, the levels are  *)
(* monotone in the distance for any values of the five radii, and          *)
(* 'minimal' is given only beyond all five radii.                          *)
(***************************************************************************)
ClassifyDone == pc = "done" /\ op = "classify_cities"

\* the damage levels, the most severe last
DamageLevels ==
    << "minimal", "minor", "moderate", "severe", "extreme", "total_destruction" >>

Severity(level) == CHOOSE n \in 1..Len(DamageLevels) : DamageLevels[n] = level

BeyondAllRadii(distance, damage_zones) ==
    /\ Lt(damage_zones.crater_radius_km, distance)
    /\ Lt(damage_zones.fireball_radius_km, distance)
    /\ Lt(damage_zones.shockwave_radius_km, distance)
    /\ Lt(damage_zones.thermal_radiation_km, distance)
    /\ Lt(damage_zones.seismic_effect_km, distance)

\* cities[i] holds a distance and the damage_level given for it
MonotoneLevels(distances, levels, damage_zones) ==
    /\ Len(levels) = Len(distances)
    /\ \A i \in 1..Len(levels) :
          /\ \E n \in 1..Len(DamageLevels) : DamageLevels[n] = levels[i]
          /\ levels[i] = "minimal" => BeyondAllRadii(distances[i], damage_zones)
          /\ \A j \in 1..Len(levels) :
                Le(distances[i], distances[j]) =>
                    Severity(levels[i]) >= Severity(levels[j])

\* the radii are in the documented order
Ordered(damage_zones) ==
    /\ Le(damage_zones.crater_radius_km, damage_zones.fireball_radius_km)
    /\ Le(damage_zones.fireball_radius_km, damage_zones.shockwave_radius_km)
    /\ Le(damage_zones.shockwave_radius_km, damage_zones.thermal_radiation_km)
    /\ Le(damage_zones.thermal_radiation_km, damage_zones.seismic_effect_km)

\* C22: the cities classified for any five radii, and the cities of every
\* answer 200 of POST /impact/simulate-city, have one damage level each, a
\* nearer city never a less severe one than a farther city, and 'minimal'
\* only beyond all five radii.
C22_MonotoneClassification ==
    /\ ClassifyDone =>
          MonotoneLevels([i \in 1..Len(args.affected_cities) |->
                             args.affected_cities[i].distance_km],
                         [i \in 1..Len(ret.value) |-> ret.value[i].damage_level],
                         args.damage_zones)
    /\ (CityRouteDone /\ ret.value.status = 200) =>
          MonotoneLevels([i \in 1..Len(args.places) |-> args.places[i].distance_km],
                         [i \in 1..Len(ret.value.payload.affected_cities) |->
                             ret.value.payload.affected_cities[i].damage_level],
                         ret.value.payload.impact.damage_zones)

\* two cities at different distances are classified differently for radii
\* that are not in the documented order
C22_Witness ==
    /\ ClassifyDone
    /\ ~Ordered(args.damage_zones)
    /\ Len(ret.value) = 2
    /\ Lt(ret.value[1].distance_km, ret.value[2].distance_km)
    /\ Severity(ret.value[1].damage_level) > Severity(ret.value[2].damage_level)
    /\ ret.value[2].damage_level = "minimal"

(***************************************************************************)
(* C23: the impact site and angle do not influence the physics.            *)
(***************************************************************************)
\* the same asteroid and target at another site and angle
Elsewhere(a, lat, lon, angle) ==
    simulate_impact(a.diameter_m, a.velocity_km_s, lat, lon, angle, a.target_type)

\* the sections of a result that hold the physics
SamePhysics(r, s) ==
    /\ r.asteroid = s.asteroid
    /\ r.energy = s.energy
    /\ r.crater = s.crater
    /\ r.seismic = s.seismic
    /\ r.damage_zones = s.damage_zones
    /\ r.population_impact = s.population_impact

\* C23: two simulate_impact calls that differ only in impact_lat, impact_lon
\* or impact_angle both raise or both return, with identical asteroid,
\* energy, crater, seismic, damage_zones and population_impact sections; the
\* impact section holds the three inputs as they were given.
C23_SiteAndAngleOnlyEchoed ==
    SimulateImpactDone =>
        /\ \A lat \in LatInputs, lon \in LonInputs, angle \in AngleInputs :
              /\ Elsewhere(args, lat, lon, angle).kind = ret.kind
              /\ ret.kind = "return" =>
                    SamePhysics(Elsewhere(args, lat, lon, angle).value, ret.value)
        /\ ret.kind = "return" =>
              /\ ret.value.impact.location = [lat |-> args.impact_lat, lon |-> args.impact_lon]
              /\ ret.value.impact.angle_degrees = args.impact_angle

\* an impact of positive energy at latitude -91 at 90 degrees has the physics
\* of the impact at latitude 45 at 45 degrees, and another impact section
C23_Witness ==
    /\ SimulateImpactDone
    /\ ret.kind = "return"
    /\ args.impact_lat = -91
    /\ args.impact_angle = 90
    /\ Lt(Zero, ret.value.energy.joules)
    /\ SamePhysics(Elsewhere(args, 45, args.impact_lon, 45).value, ret.value)
    /\ Elsewhere(args, 45, args.impact_lon, 45).value.impact # ret.value.impact

(***************************************************************************)
(* C24: the temperature drop of the climate sub-report does not decrease   *)
(* when the energy grows.                                                  *)
(***************************************************************************)
ClimateDone == pc = "done" /\ op = "calculate_climate_effects"

\* C24: for all 0 <= m1 <= m2 the temperature_drop_celsius reported for m1
\* is not greater than the one reported for m2.
C24_TemperatureDropMonotone ==
    (ClimateDone /\ Le(Zero, args.energy_megatons)) =>
        \A m1 \in EnergyInputs :
            (Le(Zero, m1) /\ Le(m1, args.energy_megatons)) =>
                Le(calculate_climate_effects(m1).value.temperature_drop_celsius,
                   ret.value.temperature_drop_celsius)

(***************************************************************************)
(* C25: no sub-report states an affected area larger than the surface of   *)
(* the Earth, 510000000 km2.                                               *)
(***************************************************************************)
EcosystemDone == pc = "done" /\ op = "calculate_ecosystem_damage"

\* C25: for every megatons >= 0 the affected_area_km2 of the climate and of
\* the ecosystem sub-report is at most 510000000.
C25_AreaWithinEarthSurface ==
    ((ClimateDone \/ EcosystemDone) /\ Le(Zero, args.energy_megatons)
        /\ ret.kind = "return") =>
        Le(ret.value.affected_area_km2, Float(5100, 5))

(***************************************************************************)
(* C26: evacuation is required exactly for a predicted impact less than 30 *)
(* days away, and the alert level never grows with the days that remain.   *)
(***************************************************************************)
EvacuationDone == pc = "done" /\ op = "_get_evacuation_recommendations"

\* the alert levels, the most severe last
AlertLevels == << "Green", "Yellow", "Orange", "Red", "Black" >>

AlertRank(level) == CHOOSE n \in 1..Len(AlertLevels) : AlertLevels[n] = level

\* the level documented for the days that remain
ExpectedLevel(days_until) ==
    IF days_until < 0 THEN "Black"
    ELSE IF days_until < 7 THEN "Red"
    ELSE IF days_until < 30 THEN "Orange"
    ELSE IF days_until < 180 THEN "Yellow"
    ELSE "Green"

\* C26: required is True if and only if will_impact and days_until < 30
\* (negative days included, with status 'IMPACT OCCURRED'); without
\* will_impact the level is 'Green' for every days_until; with it the level
\* is Black, Red, Red, Orange, Yellow, Green at the breakpoints 0, 1, 7, 30,
\* 180 and never more severe for more days.
C26_EvacuationRecommendation ==
    EvacuationDone =>
        /\ ret.value.required = (args.will_impact /\ args.days_until < 30)
        /\ ~args.will_impact => ret.value.level = "Green"
        /\ args.will_impact =>
              /\ ret.value.level = ExpectedLevel(args.days_until)
              /\ args.days_until < 0 => ret.value.status = "IMPACT OCCURRED"
        /\ \A later \in DaysUntilInputs :
              later >= args.days_until =>
                  AlertRank(get_evacuation_recommendations(later, args.will_impact).level)
                      <= AlertRank(ret.value.level)

\* an impact 29 days away: evacuation is required at level Orange, and a day
\* later it is not
C26_Witness ==
    /\ EvacuationDone
    /\ args.will_impact
    /\ args.days_until = 29
    /\ ret.value.required
    /\ ret.value.level = "Orange"
    /\ ~get_evacuation_recommendations(30, TRUE).required

(***************************************************************************)
(* C27: an impact is predicted only for a miss distance that the first     *)
(* close approach supplies and that is smaller than the Earth radius.      *)
(***************************************************************************)
TimeToImpactDone == pc = "done" /\ op = "calculate_time_to_impact"

\* the call returned a report on the first close approach
ApproachReported == TimeToImpactDone /\ ret.kind = "return" /\ ret.value.has_approach_data

\* the first close-approach entry of the record
FirstApproach == args.asteroid_data["close_approach_data"][1]

\* the entry supplies a miss distance in kilometres
SuppliesMissDistance(approach) ==
    /\ "miss_distance" \in DOMAIN approach
    /\ "kilometers" \in DOMAIN approach["miss_distance"]

\* C27: will_impact is True (impact_probability 'High') only when the first
\* close-approach entry supplies a miss distance below 6371 km; an entry
\* without a miss distance never yields will_impact = True.
C27_ImpactNeedsMissDistance ==
    (ApproachReported /\ ret.value.will_impact) =>
        /\ SuppliesMissDistance(FirstApproach)
        /\ Lt(FirstApproach["miss_distance"].kilometers, FromInt(6371))

(***************************************************************************)
(* C28: calculate_time_to_impact accepts the records that _format_asteroid *)
(* builds.                                                                 *)
(***************************************************************************)
\* C28: for every record built by _format_asteroid with at least one close
\* approach, calculate_time_to_impact returns has_approach_data = True with
\* the date, the miss distance and the velocity of the first approach.
C28_AcceptsFormattedRecords ==
    (TimeToImpactDone /\ args.formatted /\ args.asteroid_data.close_approach_data # <<>>) =>
        /\ ret.kind = "return"
        /\ ret.value.has_approach_data
        /\ ret.value.approach_date = FirstApproach.date.day * 86400
        /\ ret.value.miss_distance_km = FirstApproach.miss_distance_km
        /\ ret.value.velocity_km_s = FirstApproach.velocity_km_s

(***************************************************************************)
(* C29: the order of the checks of POST /impact/simulate and of            *)
(* POST /impact/simulate-asteroid/<id>.                                    *)
(***************************************************************************)
AsteroidRouteDone == pc = "done" /\ op = "POST /impact/simulate-asteroid"

\* the body without the fields of a direct simulation
WithoutDirectFields(data) ==
    [key \in DOMAIN data \ {"diameter_m", "velocity_km_s", "impact_angle"} |-> data[key]]

\* the body has neither nasa_data nor the pair diameter_m, velocity_km_s
Neither(data) ==
    /\ "nasa_data" \notin DOMAIN data
    /\ ~({"diameter_m", "velocity_km_s"} \subseteq DOMAIN data)

\* a body without impact_location is answered 400 before any call
MissingLocationFirst ==
    ((RouteDone \/ AsteroidRouteDone) /\ args.json # <<>>
        /\ "impact_location" \notin DOMAIN args.json[1]) =>
        /\ ret.value.status = 400
        /\ ret.value.payload = "Missing impact_location"
        /\ ret.calls = <<>>

\* a body with nasa_data is answered as the same body without diameter_m,
\* velocity_km_s and impact_angle
NasaDataOnly ==
    (RouteDone /\ args.json # <<>> /\ "nasa_data" \in DOMAIN args.json[1]) =>
        ret = route_simulate_impact(<<WithoutDirectFields(args.json[1])>>)

\* C29: in both routes a body without impact_location is answered 400
\* 'Missing impact_location' before any catalog fetch or simulation; in
\* POST /impact/simulate a body with nasa_data and diameter_m / velocity_km_s
\* is simulated from nasa_data only, and a body with neither is answered 400.
C29_RouteCheckOrder ==
    /\ MissingLocationFirst
    /\ NasaDataOnly
    /\ (RouteDone /\ args.json # <<>> /\ Neither(args.json[1])) => ret.value.status = 400

(***************************************************************************)
(* C30: the fallback of the reverse geocoding queries the radii 50, 100,   *)
(* 200, 500 km in order and reports an ocean only after a search that      *)
(* succeeded.                                                              *)
(***************************************************************************)
FallbackDone ==
    \/ pc = "done" /\ op = "_find_nearest_city_overpass"
    \/ pc = "done" /\ op = "reverse_geocode" /\ args.geocoded = <<>>

\* the radii queried by the fallback
QueriedRadii ==
    IF op = "reverse_geocode" THEN SubSeq(ret.calls, 2, Len(ret.calls)) ELSE ret.calls

\* the query numbered i returned a place
ReturnedPlace(i) ==
    /\ args.responses[i].error = ""
    /\ args.responses[i].status = 200
    /\ Get(args.responses[i].json, "elements", <<>>) # <<>>

\* the query numbered i succeeded
Succeeded(i) == args.responses[i].error = "" /\ args.responses[i].status = 200

ReportsOcean == ret.value # <<>> /\ ret.value.is_ocean

\* C30: the queried radii are the first of 50, 100, 200, 500 in that order;
\* no query is made after one that returned a place; an ocean is reported
\* only when a query succeeded and either no query returned a place or the
\* place reported is farther than 300 km away.
C30_FallbackSearch ==
    FallbackDone =>
        /\ \E n \in 1..Len(SearchRadii) : QueriedRadii = SubSeq(SearchRadii, 1, n)
        /\ \A i \in 1..Len(QueriedRadii) : ReturnedPlace(i) => Len(QueriedRadii) = i
        /\ ReportsOcean =>
              /\ \E i \in 1..Len(QueriedRadii) : Succeeded(i)
              /\ \/ \A i \in 1..Len(QueriedRadii) : ~ReturnedPlace(i)
                 \/ Lt(FromInt(300), ret.value.nearest_city_distance_km)

====
